---- MODULE Spec2Model ----
(***************************************************************************)
(* CN-Wheat compartmental flux/derivative model (cnwheat/model.py).        *)
(*                                                                         *)
(* Numbers are exact rationals.  A value is a record [n, d, err]: the      *)
(* fraction n/d in lowest terms with d > 0 when err = "ok"; otherwise the  *)
(* outcome named by err ("None" for an attribute that holds None, or the   *)
(* name of the Python exception the evaluation ends with).  Floating-point *)
(* rounding is not modelled.                                               *)
(***************************************************************************)
EXTENDS Integers, Sequences, FiniteSets, TLC

VARIABLES parameters, organ, population, call

vars == <<parameters, organ, population, call>>

(***************************************************************************)
(* Bounds of the model.                                                    *)
(***************************************************************************)
\* amounts (umol) passed to the flux laws range over -1 .. MaxAmount
MaxAmount == 1
\* step durations delta_t (s) range over 1 .. MaxDeltaT
MaxDeltaT == 2
\* structural masses are the cubes r^3 (and 1/r^3) of r in 1 .. MaxMstructRoot
MaxMstructRoot == 2
\* grain ages from flowering (s) range over 0 .. MaxAge
MaxAge == 3
\* fluxes passed to the derivative functions range over 0 .. MaxFlux
MaxFlux == 1
\* the phloem is handed at most MaxContributors contributors
MaxContributors == 2

(***************************************************************************)
(* Rational arithmetic with Python's error outcomes.                       *)
(***************************************************************************)
Abs(i) == IF i < 0 THEN -i ELSE i

RECURSIVE GCD(_, _)
GCD(a, b) == IF b = 0 THEN a ELSE GCD(b, a % b)

Sign(i) == IF i < 0 THEN -1 ELSE IF i = 0 THEN 0 ELSE 1

\* the rational n/d (d # 0) in lowest terms
Q(n, d) ==
    LET g == GCD(Abs(n), Abs(d))
    IN  [n |-> Sign(d) * (n \div g), d |-> Abs(d) \div g, err |-> "ok"]

Z(i) == [n |-> i, d |-> 1, err |-> "ok"]

None == [n |-> 0, d |-> 1, err |-> "None"]

Raise(e) == [n |-> 0, d |-> 1, err |-> e]

IsNum(x) == x.err = "ok"

IsNone(x) == x.err = "None"

\* the outcome of a binary arithmetic operation one of whose operands is no number:
\* an exception already raised propagates (left operand first); None is a TypeError
Bad(a, b) ==
    IF ~IsNum(a) /\ ~IsNone(a) THEN a
    ELSE IF ~IsNum(b) /\ ~IsNone(b) THEN b
    ELSE Raise("TypeError")

Add(a, b) ==
    IF IsNum(a) /\ IsNum(b) THEN Q(a.n * b.d + b.n * a.d, a.d * b.d) ELSE Bad(a, b)

Sub(a, b) ==
    IF IsNum(a) /\ IsNum(b) THEN Q(a.n * b.d - b.n * a.d, a.d * b.d) ELSE Bad(a, b)

Mul(a, b) ==
    IF IsNum(a) /\ IsNum(b) THEN Q(a.n * b.n, a.d * b.d) ELSE Bad(a, b)

\* true division (from __future__ import division): x / 0 raises ZeroDivisionError
Div(a, b) ==
    IF IsNum(a) /\ IsNum(b)
    THEN IF b.n = 0 THEN Raise("ZeroDivisionError") ELSE Q(a.n * b.d, a.d * b.n)
    ELSE Bad(a, b)

Neg(a) == Sub(Z(0), a)

\* comparisons of two numbers
Lt(a, b) == a.n * b.d < b.n * a.d

Le(a, b) == a.n * b.d <= b.n * a.d

\* Python's max(a, b) and min(a, b) on numbers; an exception in an argument propagates
Max(a, b) ==
    IF IsNum(a) /\ IsNum(b) THEN (IF Lt(a, b) THEN b ELSE a) ELSE Bad(a, b)

Min(a, b) ==
    IF IsNum(a) /\ IsNum(b) THEN (IF Lt(b, a) THEN b ELSE a) ELSE Bad(a, b)

\* x ** k for a natural exponent k
RECURSIVE PowNat(_, _)
PowNat(x, k) == IF k = 0 THEN Z(1) ELSE Mul(x, PowNat(x, k - 1))

\* the integer cube root of a perfect cube i >= 0
CubeRoot(i) == CHOOSE r \in 0..i : r * r * r = i

\* np.exp, kept rational: exp(0) = 1, positive, strictly increasing
Exp(x) ==
    IF IsNum(x)
    THEN IF x.n >= 0 THEN Add(Z(1), x) ELSE Div(Z(1), Sub(Z(1), x))
    ELSE Bad(x, x)

\* x ** (2/3) on the structural masses of the model, which are ratios of perfect cubes
Pow23(x) ==
    IF IsNum(x)
    THEN LET rn == CubeRoot(x.n)
             rd == CubeRoot(x.d)
         IN  Q(rn * rn, rd * rd)
    ELSE Bad(x, x)

(***************************************************************************)
(* Input domains.                                                          *)
(***************************************************************************)
Amounts == {Z(i) : i \in -1..MaxAmount}

PositiveAmounts == {Z(i) : i \in 1..MaxAmount}

DeltaTs == {Z(i) : i \in 1..MaxDeltaT}

DeltaTs0 == {Z(0)} \cup DeltaTs

Ages == {Z(i) : i \in 0..MaxAge}

Fluxes == {Z(i) : i \in 0..MaxFlux}

\* the transpirations (mmol H2O s-1) of an element and of a culm, a negative one included
Transpirations == {Z(i) : i \in -1..(MaxAmount + 1)}

\* the loadings handed to calculate_Regul_S_Fructan and the amino acids of the roots
\* handed to calculate_exudation: -1 .. MaxAmount + 1
Loadings == {Z(i) : i \in -1..(MaxAmount + 1)}

AxisMstructs == {Z(r * r * r) : r \in 1..MaxMstructRoot}

Mstructs == {Z(r * r * r) : r \in 1..MaxMstructRoot} \cup {Q(1, r * r * r) : r \in 2..MaxMstructRoot}

(***************************************************************************)
(* EcophysiologicalConstants.                                              *)
(***************************************************************************)
C_MOLAR_MASS == 12

RATIO_C_mstruct == Q(384, 1000)

AMINO_ACIDS_C_RATIO == Q(367, 100)

AMINO_ACIDS_N_RATIO == Q(117, 100)

N_MOLAR_MASS == 14

(***************************************************************************)
(* The parameter tables of module `parameters`, which model.py imports.    *)
(* Every rate, affinity and conductance coefficient is positive; the       *)
(* exponents are naturals.  a is the ALPHA of the lamina elements and of   *)
(* the roots, k scales the affinities and v the maximal rates.             *)
(***************************************************************************)
ParameterTable(a, k, v) ==
    [PHOTOSYNTHETIC_ORGAN_PARAMETERS |->
        [BETA |-> k, SIGMA_SUCROSE |-> v, SIGMA_AMINO_ACIDS |-> v,
         VMAX_SPROTEINS |-> v, K_SPROTEINS |-> k,
         VMAX_DPROTEINS |-> v, K_DPROTEINS |-> k, N_DPROTEINS |-> Z(2),
         VMAX_AMINO_ACIDS |-> v, K_AMINO_ACIDS_NITRATES |-> k, K_AMINO_ACIDS_TRIOSESP |-> k,
         K_DFRUCTAN |-> k, VMAX_DFRUCTAN |-> v, K_SFRUCTAN |-> k,
         VMAX_SUCROSE |-> v, K_SUCROSE |-> k,
         DELTA_DSTARCH |-> v, VMAX_STARCH |-> v, K_STARCH |-> k,
         VMAX_SFRUCTAN_POT |-> v, K_REGUL_SFRUCTAN |-> k, N_REGUL_SFRUCTAN |-> Z(2),
         DELTA_D_CYTOKININS |-> v],
     HIDDEN_ZONE_PARAMETERS |-> [SIGMA |-> v, delta_Dproteins |-> v],
     CHAFF_ELEMENT_PARAMETERS |-> [ALPHA |-> Z(1)],
     LAMINA_ELEMENT_PARAMETERS |-> [ALPHA |-> a],
     INTERNODE_ELEMENT_PARAMETERS |-> [ALPHA |-> Z(1)],
     PEDUNCLE_ELEMENT_PARAMETERS |-> [ALPHA |-> Z(1)],
     SHEATH_ELEMENT_PARAMETERS |-> [ALPHA |-> Z(1)],
     AXIS_PARAMETERS |-> [ALPHA |-> Z(1)],
     ROOTS_PARAMETERS |->
        [ALPHA |-> a, VMAX_SUCROSE_UNLOADING |-> v, K_SUCROSE_UNLOADING |-> k,
         A_VMAX_HATS |-> v, LAMBDA_VMAX_HATS |-> k, A_K_HATS |-> k, LAMBDA_K_HATS |-> k,
         A_LATS |-> v, LAMBDA_LATS |-> k, K_C |-> k, NET_INFLUX_UPTAKE_RATIO |-> Q(1, 2),
         VMAX_AMINO_ACIDS |-> v, K_AMINO_ACIDS_NITRATES |-> k, K_AMINO_ACIDS_SUCROSE |-> k,
         K_NITRATE_EXPORT |-> k, K_AMINO_ACIDS_EXPORT |-> k, C_EXUDATION |-> Q(1, 2)],
     GRAINS_PARAMETERS |->
        [FILLING_INIT |-> Z(1), FILLING_END |-> Z(2),
         VMAX_STARCH |-> v, K_STARCH |-> k, VMAX_RGR |-> v, K_RGR |-> k],
     SOIL_PARAMETERS |-> [MINERALISATION_RATE |-> v]]

ParameterTables == {ParameterTable(Z(1), Z(1), Z(1)), ParameterTable(Z(2), Q(1, 2), Z(3))}

\* the initial values of compartments and state parameters (parameters.*_INIT_COMPARTMENTS)
INIT_COMPARTMENTS == [n |-> 1, d |-> 1, err |-> "ok"]

(***************************************************************************)
(* class PhotosyntheticOrganElement and its five tissue variants.          *)
(***************************************************************************)
ElementClasses == {"ChaffElement", "LaminaElement", "InternodeElement", "PeduncleElement", "SheathElement"}

\* self.__class__.PARAMETERS of an element
ElementClassParameters(self) ==
    CASE self.class = "ChaffElement" -> parameters.CHAFF_ELEMENT_PARAMETERS
      [] self.class = "LaminaElement" -> parameters.LAMINA_ELEMENT_PARAMETERS
      [] self.class = "InternodeElement" -> parameters.INTERNODE_ELEMENT_PARAMETERS
      [] self.class = "PeduncleElement" -> parameters.PEDUNCLE_ELEMENT_PARAMETERS
      [] self.class = "SheathElement" -> parameters.SHEATH_ELEMENT_PARAMETERS

\* the attributes that initialize creates: reading one before raises AttributeError
ElementDerivedAttributes ==
    {"DELTA_D_CYTOKININS", "conductance_Export_Amino_Acids", "conductance_Loading_Amino_Acids",
     "conductance_Export_Sucrose", "conductance_Loading_Sucrose", "VMAX_S_Proteins",
     "K_S_Proteins", "CST1_D_Proteins", "N_D_Proteins", "KN_D_Proteins", "VMAX_S_AA",
     "K_Nitrates_S_AA", "K_TrioseP_S_AA", "CST1_D_Fructan", "K_D_Fructan", "K_S_Fructan",
     "VMAX_S_Sucrose", "K_S_Sucrose", "Delta_D_Starch", "VMAX_S_Starch", "K_S_Starch",
     "VMAX_Regul_S_Fructan", "CST1_Regul_S_Fructan", "N_Regul_S_Fructan"}

\* PhotosyntheticOrganElement.__init__
PhotosyntheticOrganElement(class, mstruct, Nstruct, green_area, Tr) ==
    [kind |-> "PhotosyntheticOrganElement", class |-> class,
     mstruct |-> mstruct, Nstruct |-> Nstruct, is_growing |-> FALSE,
     green_area |-> green_area, Tr |-> Tr, Ag |-> INIT_COMPARTMENTS, Ts |-> INIT_COMPARTMENTS,
     triosesP |-> INIT_COMPARTMENTS, starch |-> INIT_COMPARTMENTS,
     sucrose |-> INIT_COMPARTMENTS, fructan |-> INIT_COMPARTMENTS,
     nitrates |-> INIT_COMPARTMENTS, amino_acids |-> INIT_COMPARTMENTS,
     proteins |-> INIT_COMPARTMENTS, cytokinins |-> INIT_COMPARTMENTS,
     Loading_Sucrose |-> None, Loading_Amino_Acids |-> None,
     Total_Organic_Nitrogen |-> None,
     derived |-> [a \in ElementDerivedAttributes |-> Raise("AttributeError")]]

\* PhotosyntheticOrganElement.initialize
Element_initialize(self, delta_t) ==
    LET P == parameters.PHOTOSYNTHETIC_ORGAN_PARAMETERS
        H == parameters.HIDDEN_ZONE_PARAMETERS
        m23 == Pow23(self.mstruct)
    IN  [self EXCEPT !.derived =
          [DELTA_D_CYTOKININS |-> Mul(P.DELTA_D_CYTOKININS, delta_t),
           conductance_Export_Amino_Acids |-> Mul(Mul(Mul(delta_t, H.SIGMA), P.BETA), m23),
           conductance_Loading_Amino_Acids |-> Mul(Mul(Mul(delta_t, P.SIGMA_AMINO_ACIDS), P.BETA), m23),
           conductance_Export_Sucrose |-> Mul(Mul(Mul(delta_t, H.SIGMA), P.BETA), m23),
           conductance_Loading_Sucrose |-> Mul(Mul(Mul(delta_t, P.SIGMA_SUCROSE), P.BETA), m23),
           VMAX_S_Proteins |-> Mul(P.VMAX_SPROTEINS, delta_t),
           K_S_Proteins |-> P.K_SPROTEINS,
           CST1_D_Proteins |-> Mul(P.VMAX_DPROTEINS, PowNat(P.K_DPROTEINS, P.N_DPROTEINS.n)),
           N_D_Proteins |-> P.N_DPROTEINS,
           KN_D_Proteins |-> PowNat(P.K_DPROTEINS, P.N_DPROTEINS.n),
           VMAX_S_AA |-> Mul(P.VMAX_AMINO_ACIDS, delta_t),
           K_Nitrates_S_AA |-> P.K_AMINO_ACIDS_NITRATES,
           K_TrioseP_S_AA |-> P.K_AMINO_ACIDS_TRIOSESP,
           CST1_D_Fructan |-> Mul(Mul(P.K_DFRUCTAN, P.VMAX_DFRUCTAN), delta_t),
           K_D_Fructan |-> P.K_DFRUCTAN,
           K_S_Fructan |-> P.K_SFRUCTAN,
           VMAX_S_Sucrose |-> Mul(delta_t, P.VMAX_SUCROSE),
           K_S_Sucrose |-> P.K_SUCROSE,
           Delta_D_Starch |-> Mul(P.DELTA_DSTARCH, delta_t),
           VMAX_S_Starch |-> Mul(P.VMAX_STARCH, delta_t),
           K_S_Starch |-> P.K_STARCH,
           VMAX_Regul_S_Fructan |-> P.VMAX_SFRUCTAN_POT,
           CST1_Regul_S_Fructan |-> PowNat(Mul(P.K_REGUL_SFRUCTAN, delta_t), P.N_REGUL_SFRUCTAN.n),
           N_Regul_S_Fructan |-> P.N_REGUL_SFRUCTAN]]

\* self.mstruct * self.__class__.PARAMETERS.ALPHA
Element_mstruct_ALPHA(self) == Mul(self.mstruct, ElementClassParameters(self).ALPHA)

\* calculate_Nitrates_import sharing out the export without the test of Total_Transpiration
Element_calculate_Nitrates_import_unguarded(self, Export_Nitrates, element_transpiration, Total_Transpiration) ==
    Mul(Export_Nitrates, Div(element_transpiration, Total_Transpiration))

\* PhotosyntheticOrganElement.calculate_Nitrates_import
Element_calculate_Nitrates_import(self, Export_Nitrates, element_transpiration, Total_Transpiration) ==
    IF Lt(Z(0), Total_Transpiration)
    THEN Mul(Export_Nitrates, Div(element_transpiration, Total_Transpiration))
    ELSE Z(0)

\* calculate_Amino_Acids_import scaling the export by the transpiration of the element alone
Element_calculate_Amino_Acids_import_undivided(self, roots_exported_amino_acids, element_transpiration, Total_Transpiration) ==
    IF Lt(Z(0), Total_Transpiration)
    THEN Mul(roots_exported_amino_acids, element_transpiration)
    ELSE Z(0)

\* PhotosyntheticOrganElement.calculate_Amino_Acids_import
Element_calculate_Amino_Acids_import(self, roots_exported_amino_acids, element_transpiration, Total_Transpiration) ==
    IF Lt(Z(0), Total_Transpiration)
    THEN Mul(roots_exported_amino_acids, Div(element_transpiration, Total_Transpiration))
    ELSE Z(0)

\* PhotosyntheticOrganElement.calculate_cytokinins_import
Element_calculate_cytokinins_import(self, roots_exporteD_cytokinins, element_transpiration, Total_Transpiration) ==
    IF Lt(Z(0), Total_Transpiration)
    THEN Mul(roots_exporteD_cytokinins, Div(element_transpiration, Total_Transpiration))
    ELSE Z(0)

\* PhotosyntheticOrganElement.calculate_Total_Organic_Nitrogen
Element_calculate_Total_Organic_Nitrogen(self, amino_acids, proteins, Nstruct) ==
    Add(Add(amino_acids, proteins), Mul(Div(Nstruct, Z(N_MOLAR_MASS)), Z(1000000)))

\* calculate_integrative_variables moving the amino acids into the total it stores
Element_calculate_integrative_variables_draining(self) ==
    [self EXCEPT !.Total_Organic_Nitrogen =
        Element_calculate_Total_Organic_Nitrogen(self, self.amino_acids, self.proteins, self.Nstruct),
                 !.amino_acids = Z(0)]

\* PhotosyntheticOrganElement.calculate_integrative_variables
Element_calculate_integrative_variables(self) ==
    [self EXCEPT !.Total_Organic_Nitrogen =
        Element_calculate_Total_Organic_Nitrogen(self, self.amino_acids, self.proteins, self.Nstruct)]

\* PhotosyntheticOrganElement.calculate_Total_Transpiration
Element_calculate_Total_Transpiration(self, Tr, green_area) == Mul(Tr, green_area)

\* calculate_S_Starch on the triose phosphates as given, not clamped at 0
Element_calculate_S_Starch_unclamped(self, triosesP, delta_t) ==
    LET conc == Div(triosesP, Element_mstruct_ALPHA(self))
    IN  Div(Mul(conc, self.derived.VMAX_S_Starch), Add(conc, self.derived.K_S_Starch))

\* PhotosyntheticOrganElement.calculate_S_Starch
Element_calculate_S_Starch(self, triosesP, delta_t) ==
    LET conc == Div(Max(Z(0), triosesP), Element_mstruct_ALPHA(self))
    IN  Div(Mul(conc, self.derived.VMAX_S_Starch), Add(conc, self.derived.K_S_Starch))

\* PhotosyntheticOrganElement.calculate_D_Starch
Element_calculate_D_Starch(self, starch, delta_t) ==
    Max(Z(0), Mul(self.derived.Delta_D_Starch, Div(starch, Element_mstruct_ALPHA(self))))

\* PhotosyntheticOrganElement.calculate_S_Sucrose
Element_calculate_S_Sucrose(self, triosesP, delta_t) ==
    LET conc == Div(Max(Z(0), triosesP), Element_mstruct_ALPHA(self))
    IN  Div(Mul(conc, self.derived.VMAX_S_Sucrose), Add(conc, self.derived.K_S_Sucrose))

\* PhotosyntheticOrganElement.calculate_Loading_Sucrose
Element_calculate_Loading_Sucrose(self, sucrose, sucrose_phloem, mstruct_axis, delta_t) ==
    LET conc_sucrose_element == Div(sucrose, Element_mstruct_ALPHA(self))
        conc_sucrose_phloem == Div(sucrose_phloem, Mul(mstruct_axis, parameters.AXIS_PARAMETERS.ALPHA))
        driving_sucrose_compartment == Max(conc_sucrose_element, conc_sucrose_phloem)
        diff_sucrose == Sub(conc_sucrose_element, conc_sucrose_phloem)
    IN  Mul(Mul(driving_sucrose_compartment, diff_sucrose), self.derived.conductance_Loading_Sucrose)

\* PhotosyntheticOrganElement.calculate_export_sucrose
Element_calculate_export_sucrose(self, sucrose, sucrose_hiddenzone, mstruct_hiddenzone, delta_t) ==
    LET conc_sucrose_element == Div(sucrose, Element_mstruct_ALPHA(self))
        conc_sucrose_hiddenzone == Div(sucrose_hiddenzone, mstruct_hiddenzone)
        diff_sucrose == Sub(conc_sucrose_element, conc_sucrose_hiddenzone)
    IN  Mul(diff_sucrose, self.derived.conductance_Export_Sucrose)

\* calculate_D_Proteins returning the degradation first and k_proteins second
Element_calculate_D_Proteins_amount_first(self, proteins, cytokinins, delta_t) ==
    LET conc_cytokinins == Max(Z(0), Div(cytokinins, self.mstruct))
        k_proteins == Div(self.derived.CST1_D_Proteins,
                          Add(PowNat(conc_cytokinins, self.derived.N_D_Proteins.n),
                              self.derived.KN_D_Proteins))
    IN  <<Mul(Max(Z(0), Mul(k_proteins, Div(proteins, Element_mstruct_ALPHA(self)))), delta_t),
          k_proteins>>

\* PhotosyntheticOrganElement.calculate_D_Proteins: the pair (k_proteins, degradation)
Element_calculate_D_Proteins(self, proteins, cytokinins, delta_t) ==
    LET conc_cytokinins == Max(Z(0), Div(cytokinins, self.mstruct))
        k_proteins == Div(self.derived.CST1_D_Proteins,
                          Add(PowNat(conc_cytokinins, self.derived.N_D_Proteins.n),
                              self.derived.KN_D_Proteins))
    IN  <<k_proteins,
          Mul(Max(Z(0), Mul(k_proteins, Div(proteins, Element_mstruct_ALPHA(self)))), delta_t)>>

\* PhotosyntheticOrganElement.calculate_Loading_Amino_Acids
Element_calculate_Loading_Amino_Acids(self, amino_acids, amino_acids_phloem, mstruct_axis, delta_t) ==
    LET Conc_Amino_Acids_element == Div(amino_acids, Element_mstruct_ALPHA(self))
        Conc_Amino_Acids_phloem == Div(amino_acids_phloem, Mul(mstruct_axis, parameters.AXIS_PARAMETERS.ALPHA))
        driving_amino_acids_compartment == Max(Conc_Amino_Acids_element, Conc_Amino_Acids_phloem)
        diff_amino_acids == Sub(Conc_Amino_Acids_element, Conc_Amino_Acids_phloem)
    IN  Mul(Mul(driving_amino_acids_compartment, diff_amino_acids), self.derived.conductance_Loading_Amino_Acids)

\* calculate_Export_Amino_Acids scaled by the driving concentration, as the loadings are
Element_calculate_Export_Amino_Acids_driven(self, amino_acids, amino_acids_hiddenzone, mstruct_hiddenzone, delta_t) ==
    LET Conc_Amino_Acids_element == Div(amino_acids, Element_mstruct_ALPHA(self))
        Conc_Amino_Acids_hiddenzone == Div(amino_acids_hiddenzone, mstruct_hiddenzone)
        diff_amino_acids == Sub(Conc_Amino_Acids_element, Conc_Amino_Acids_hiddenzone)
    IN  Mul(Mul(Max(Conc_Amino_Acids_element, Conc_Amino_Acids_hiddenzone), diff_amino_acids),
            self.derived.conductance_Export_Amino_Acids)

\* PhotosyntheticOrganElement.calculate_Export_Amino_Acids
Element_calculate_Export_Amino_Acids(self, amino_acids, amino_acids_hiddenzone, mstruct_hiddenzone, delta_t) ==
    LET Conc_Amino_Acids_element == Div(amino_acids, Element_mstruct_ALPHA(self))
        Conc_Amino_Acids_hiddenzone == Div(amino_acids_hiddenzone, mstruct_hiddenzone)
        diff_amino_acids == Sub(Conc_Amino_Acids_element, Conc_Amino_Acids_hiddenzone)
    IN  Mul(diff_amino_acids, self.derived.conductance_Export_Amino_Acids)

\* PhotosyntheticOrganElement.calculate_Regul_S_Fructan
Element_calculate_Regul_S_Fructan(self, Loading_Sucrose, delta_t) ==
    IF Le(Loading_Sucrose, Z(0))
    THEN parameters.PHOTOSYNTHETIC_ORGAN_PARAMETERS.VMAX_SFRUCTAN_POT
    ELSE LET Loading_Sucrose_massic == Div(Loading_Sucrose, self.mstruct)
             N == parameters.PHOTOSYNTHETIC_ORGAN_PARAMETERS.N_REGUL_SFRUCTAN.n
         IN  Div(Mul(self.derived.VMAX_Regul_S_Fructan, self.derived.CST1_Regul_S_Fructan),
                 Add(Max(Z(0), PowNat(Loading_Sucrose_massic, N)), self.derived.CST1_Regul_S_Fructan))

\* PhotosyntheticOrganElement.calculate_S_Fructan
Element_calculate_S_Fructan(self, sucrose, Regul_S_Fructan, delta_t) ==
    LET conc == Div(Max(Z(0), sucrose), Element_mstruct_ALPHA(self))
    IN  Mul(Div(Mul(conc, Regul_S_Fructan), Add(conc, self.derived.K_S_Fructan)), delta_t)

\* d_potential of PhotosyntheticOrganElement.calculate_D_Fructan
Element_d_potential(self, sucrose) ==
    Div(self.derived.CST1_D_Fructan,
        Add(Div(Max(Z(0), sucrose), Element_mstruct_ALPHA(self)), self.derived.K_D_Fructan))

\* calculate_D_Fructan returning the potential degradation, the available pool ignored
Element_calculate_D_Fructan_uncapped(self, sucrose, fructan, delta_t) ==
    Element_d_potential(self, sucrose)

\* PhotosyntheticOrganElement.calculate_D_Fructan
Element_calculate_D_Fructan(self, sucrose, fructan, delta_t) ==
    LET d_potential == Element_d_potential(self, sucrose)
        d_actual == Min(d_potential, Max(Z(0), fructan))
    IN  d_actual

\* PhotosyntheticOrganElement.calculate_S_amino_acids
Element_calculate_S_amino_acids(self, nitrates, triosesP, delta_t) ==
    IF Le(nitrates, Z(0)) \/ Le(triosesP, Z(0))
    THEN Z(0)
    ELSE Div(self.derived.VMAX_S_AA,
             Mul(Add(Z(1), Div(self.derived.K_Nitrates_S_AA, Div(nitrates, Element_mstruct_ALPHA(self)))),
                 Add(Z(1), Div(self.derived.K_TrioseP_S_AA, Div(triosesP, Element_mstruct_ALPHA(self))))))

\* PhotosyntheticOrganElement.calculate_S_proteins
Element_calculate_S_proteins(self, amino_acids, delta_t) ==
    LET conc == Div(Max(Z(0), amino_acids), Element_mstruct_ALPHA(self))
    IN  Div(Mul(conc, self.derived.VMAX_S_Proteins), Add(conc, self.derived.K_S_Proteins))

\* PhotosyntheticOrganElement.calculate_triosesP_derivative
Element_calculate_triosesP_derivative(self, Photosynthesis, S_Sucrose, S_Starch, S_Amino_Acids) ==
    LET triosesP_consumption_AA == Mul(Div(S_Amino_Acids, AMINO_ACIDS_N_RATIO), AMINO_ACIDS_C_RATIO)
    IN  Sub(Photosynthesis,
            Mul(Add(Add(S_Sucrose, S_Starch), triosesP_consumption_AA), Element_mstruct_ALPHA(self)))

\* PhotosyntheticOrganElement.calculate_starch_derivative
Element_calculate_starch_derivative(self, S_Starch, D_Starch) ==
    Mul(Sub(S_Starch, D_Starch), Element_mstruct_ALPHA(self))

\* PhotosyntheticOrganElement.calculate_sucrose_derivative
Element_calculate_sucrose_derivative(self, S_Sucrose, D_Starch, Loading_Sucrose, S_Fructan, D_Fructan, sum_respi) ==
    Sub(Sub(Mul(Sub(Add(Add(S_Sucrose, D_Starch), D_Fructan), S_Fructan), self.mstruct), sum_respi),
        Loading_Sucrose)

\* PhotosyntheticOrganElement.calculate_fructan_derivative
Element_calculate_fructan_derivative(self, S_Fructan, D_Fructan) ==
    Mul(Sub(S_Fructan, D_Fructan), Element_mstruct_ALPHA(self))

\* a nitrate reduction counted per unit of structural mass, not of photosynthetic mass
Element_calculate_nitrates_derivative_per_mstruct(self, Nitrates_import, S_Amino_Acids) ==
    Sub(Nitrates_import, Mul(S_Amino_Acids, self.mstruct))

\* PhotosyntheticOrganElement.calculate_nitrates_derivative
Element_calculate_nitrates_derivative(self, Nitrates_import, S_Amino_Acids) ==
    LET nitrate_reduction_AA == S_Amino_Acids
    IN  Sub(Nitrates_import,
            Mul(Mul(nitrate_reduction_AA, self.mstruct), ElementClassParameters(self).ALPHA))

\* PhotosyntheticOrganElement.calculate_amino_acids_derivative
Element_calculate_amino_acids_derivative(self, Amino_Acids_import, S_Amino_Acids, S_Proteins, D_Proteins, Loading_Amino_Acids) ==
    Add(Sub(Amino_Acids_import, Loading_Amino_Acids),
        Mul(Sub(Add(S_Amino_Acids, D_Proteins), S_Proteins), Element_mstruct_ALPHA(self)))

\* PhotosyntheticOrganElement.calculate_proteins_derivative
Element_calculate_proteins_derivative(self, S_Proteins, D_Proteins) ==
    Mul(Sub(S_Proteins, D_Proteins), Element_mstruct_ALPHA(self))

(***************************************************************************)
(* class HiddenZone.                                                       *)
(***************************************************************************)
\* HiddenZone.__init__
HiddenZone(mstruct) ==
    [kind |-> "HiddenZone", mstruct |-> mstruct, Nstruct |-> INIT_COMPARTMENTS,
     sucrose |-> INIT_COMPARTMENTS, fructan |-> INIT_COMPARTMENTS,
     amino_acids |-> INIT_COMPARTMENTS, proteins |-> INIT_COMPARTMENTS,
     Unloading_Sucrose |-> None, Unloading_Amino_Acids |-> None]

\* calculate_Unloading_Sucrose with the gradient taken from the hidden zone to the phloem
HiddenZone_calculate_Unloading_Sucrose_reversed(self, sucrose, sucrose_phloem, mstruct_axis, delta_t) ==
    LET conductance == Mul(Mul(parameters.HIDDEN_ZONE_PARAMETERS.SIGMA,
                               parameters.PHOTOSYNTHETIC_ORGAN_PARAMETERS.BETA), Pow23(self.mstruct))
    IN  Mul(Mul(Sub(Div(sucrose, self.mstruct), Div(sucrose_phloem, mstruct_axis)), conductance), delta_t)

\* HiddenZone.calculate_Unloading_Sucrose
HiddenZone_calculate_Unloading_Sucrose(self, sucrose, sucrose_phloem, mstruct_axis, delta_t) ==
    LET conductance == Mul(Mul(parameters.HIDDEN_ZONE_PARAMETERS.SIGMA,
                               parameters.PHOTOSYNTHETIC_ORGAN_PARAMETERS.BETA), Pow23(self.mstruct))
    IN  Mul(Mul(Sub(Div(sucrose_phloem, mstruct_axis), Div(sucrose, self.mstruct)), conductance), delta_t)

\* HiddenZone.calculate_Unloading_Amino_Acids
HiddenZone_calculate_Unloading_Amino_Acids(self, amino_acids, amino_acids_phloem, mstruct_axis, delta_t) ==
    LET conductance == Mul(Mul(parameters.HIDDEN_ZONE_PARAMETERS.SIGMA,
                               parameters.PHOTOSYNTHETIC_ORGAN_PARAMETERS.BETA), Pow23(self.mstruct))
    IN  Mul(Mul(Sub(Div(amino_acids_phloem, mstruct_axis), Div(amino_acids, self.mstruct)), conductance), delta_t)

\* HiddenZone.calculate_S_proteins
HiddenZone_calculate_S_proteins(self, amino_acids, delta_t) ==
    LET P == parameters.PHOTOSYNTHETIC_ORGAN_PARAMETERS
        conc == Max(Z(0), Div(amino_acids, self.mstruct))
    IN  Mul(Div(Mul(P.VMAX_SPROTEINS, conc), Add(P.K_SPROTEINS, conc)), delta_t)

\* HiddenZone.calculate_D_Proteins
HiddenZone_calculate_D_Proteins(self, proteins, delta_t) ==
    Mul(Max(Z(0), Mul(parameters.HIDDEN_ZONE_PARAMETERS.delta_Dproteins, Div(proteins, self.mstruct))),
        delta_t)

\* calculate_Regul_S_Fructan regulated by the loading of the step, not by its rate per second
HiddenZone_calculate_Regul_S_Fructan_per_step(self, Loading_Sucrose, delta_t) ==
    LET P == parameters.PHOTOSYNTHETIC_ORGAN_PARAMETERS
    IN  IF Le(Loading_Sucrose, Z(0))
        THEN P.VMAX_SFRUCTAN_POT
        ELSE LET KN == PowNat(P.K_REGUL_SFRUCTAN, P.N_REGUL_SFRUCTAN.n)
             IN  Div(Mul(P.VMAX_SFRUCTAN_POT, KN),
                     Add(Max(Z(0), PowNat(Div(Loading_Sucrose, self.mstruct), P.N_REGUL_SFRUCTAN.n)), KN))

\* HiddenZone.calculate_Regul_S_Fructan
HiddenZone_calculate_Regul_S_Fructan(self, Loading_Sucrose, delta_t) ==
    LET P == parameters.PHOTOSYNTHETIC_ORGAN_PARAMETERS
    IN  IF Le(Loading_Sucrose, Z(0))
        THEN P.VMAX_SFRUCTAN_POT
        ELSE LET rate_Loading_Sucrose_massic == Div(Div(Loading_Sucrose, self.mstruct), delta_t)
                 KN == PowNat(P.K_REGUL_SFRUCTAN, P.N_REGUL_SFRUCTAN.n)
             IN  Div(Mul(P.VMAX_SFRUCTAN_POT, KN),
                     Add(Max(Z(0), PowNat(rate_Loading_Sucrose_massic, P.N_REGUL_SFRUCTAN.n)), KN))

\* HiddenZone.calculate_S_Fructan
HiddenZone_calculate_S_Fructan(self, sucrose, Regul_S_Fructan, delta_t) ==
    LET conc == Div(Max(Z(0), sucrose), self.mstruct)
    IN  Mul(Div(Mul(conc, Regul_S_Fructan),
                Add(conc, parameters.PHOTOSYNTHETIC_ORGAN_PARAMETERS.K_SFRUCTAN)), delta_t)

\* d_potential of HiddenZone.calculate_D_Fructan
HiddenZone_d_potential(self, sucrose, delta_t) ==
    LET P == parameters.PHOTOSYNTHETIC_ORGAN_PARAMETERS
    IN  Mul(Div(Mul(P.K_DFRUCTAN, P.VMAX_DFRUCTAN),
                Add(Div(Max(Z(0), sucrose), self.mstruct), P.K_DFRUCTAN)), delta_t)

\* HiddenZone.calculate_D_Fructan
HiddenZone_calculate_D_Fructan(self, sucrose, fructan, delta_t) ==
    LET d_potential == HiddenZone_d_potential(self, sucrose, delta_t)
        d_actual == Min(d_potential, Max(Z(0), fructan))
    IN  d_actual

\* HiddenZone.calculate_sucrose_derivative
HiddenZone_calculate_sucrose_derivative(self, Unloading_Sucrose, S_Fructan, D_Fructan, hiddenzone_Loading_Sucrose_contribution) ==
    Add(Add(Unloading_Sucrose, Mul(Sub(D_Fructan, S_Fructan), self.mstruct)),
        hiddenzone_Loading_Sucrose_contribution)

\* HiddenZone.calculate_fructan_derivative
HiddenZone_calculate_fructan_derivative(self, S_Fructan, D_Fructan) ==
    Mul(Sub(S_Fructan, D_Fructan), self.mstruct)

\* HiddenZone.calculate_amino_acids_derivative
HiddenZone_calculate_amino_acids_derivative(self, Unloading_Amino_Acids, S_Proteins, D_Proteins, hiddenzone_Loading_Amino_Acids_contribution) ==
    Add(Add(Unloading_Amino_Acids, Mul(Sub(D_Proteins, S_Proteins), self.mstruct)),
        hiddenzone_Loading_Amino_Acids_contribution)

\* HiddenZone.calculate_proteins_derivative
HiddenZone_calculate_proteins_derivative(self, S_Proteins, D_Proteins) ==
    Mul(Sub(S_Proteins, D_Proteins), self.mstruct)

(***************************************************************************)
(* class Grains.                                                           *)
(***************************************************************************)
\* Grains.__init__
Grains(age_from_flowering, structure) ==
    [kind |-> "Grains", age_from_flowering |-> age_from_flowering,
     starch |-> INIT_COMPARTMENTS, structure |-> structure, proteins |-> INIT_COMPARTMENTS,
     structural_dry_mass |-> None,
     S_grain_structure |-> None, S_grain_starch |-> None, S_Proteins |-> None]

\* Grains.calculate_structural_dry_mass
Grains_calculate_structural_dry_mass(self, structure) ==
    Div(Mul(Mul(structure, Q(1, 1000000)), Z(C_MOLAR_MASS)), RATIO_C_mstruct)

\* Grains.initialize
Grains_initialize(self) ==
    [self EXCEPT !.structural_dry_mass = Grains_calculate_structural_dry_mass(self, self.structure)]

\* Grains.calculate_RGR_Structure
Grains_calculate_RGR_Structure(self, sucrose_phloem, mstruct_axis) ==
    LET conc == Div(Max(Z(0), sucrose_phloem), Mul(mstruct_axis, parameters.AXIS_PARAMETERS.ALPHA))
    IN  Div(Mul(conc, parameters.GRAINS_PARAMETERS.VMAX_RGR), Add(conc, parameters.GRAINS_PARAMETERS.K_RGR))

\* calculate_S_grain_structure with the enlargement phase ending before FILLING_INIT
Grains_calculate_S_grain_structure_strict(self, prec_structure, RGR_Structure, delta_t) ==
    IF Lt(self.age_from_flowering, parameters.GRAINS_PARAMETERS.FILLING_INIT)
    THEN Mul(Mul(prec_structure, RGR_Structure), delta_t)
    ELSE Z(0)

\* Grains.calculate_S_grain_structure
Grains_calculate_S_grain_structure(self, prec_structure, RGR_Structure, delta_t) ==
    IF Le(self.age_from_flowering, parameters.GRAINS_PARAMETERS.FILLING_INIT)
    THEN Mul(Mul(prec_structure, RGR_Structure), delta_t)
    ELSE Z(0)

\* Grains.calculate_S_grain_starch
Grains_calculate_S_grain_starch(self, sucrose_phloem, mstruct_axis, delta_t) ==
    IF Le(self.age_from_flowering, parameters.GRAINS_PARAMETERS.FILLING_INIT)
    THEN Z(0)
    ELSE IF Lt(parameters.GRAINS_PARAMETERS.FILLING_END, self.age_from_flowering)
    THEN Z(0)
    ELSE LET conc == Div(Max(Z(0), sucrose_phloem), Mul(mstruct_axis, parameters.AXIS_PARAMETERS.ALPHA))
         IN  Mul(Div(Mul(conc, parameters.GRAINS_PARAMETERS.VMAX_STARCH),
                     Add(conc, parameters.GRAINS_PARAMETERS.K_STARCH)), delta_t)

\* Grains.calculate_S_proteins
Grains_calculate_S_proteins(self, S_grain_structure, S_grain_starch, amino_acids_phloem, sucrose_phloem, structural_dry_mass) ==
    IF Lt(Z(0), sucrose_phloem)
    THEN Mul(Add(S_grain_structure, Mul(S_grain_starch, structural_dry_mass)),
             Div(amino_acids_phloem, sucrose_phloem))
    ELSE Z(0)

\* Grains.calculate_structure_derivative
Grains_calculate_structure_derivative(self, S_grain_structure, R_growth) ==
    Sub(S_grain_structure, R_growth)

\* Grains.calculate_starch_derivative
Grains_calculate_starch_derivative(self, S_grain_starch, structural_dry_mass, R_growth) ==
    Sub(Mul(S_grain_starch, structural_dry_mass), R_growth)

\* Grains.calculate_proteins_derivative
Grains_calculate_proteins_derivative(self, S_Proteins) == S_Proteins

(***************************************************************************)
(* class Roots.                                                            *)
(***************************************************************************)
\* Roots.__init__
Roots(mstruct, Nstruct, amino_acids) ==
    [kind |-> "Roots", mstruct |-> mstruct, Nstruct |-> Nstruct,
     sucrose |-> INIT_COMPARTMENTS, nitrates |-> INIT_COMPARTMENTS,
     amino_acids |-> amino_acids, cytokinins |-> INIT_COMPARTMENTS,
     Unloading_Sucrose |-> None, Unloading_Amino_Acids |-> None,
     Total_Organic_Nitrogen |-> None]

\* Roots.calculate_Total_Organic_Nitrogen
Roots_calculate_Total_Organic_Nitrogen(self, amino_acids, Nstruct) ==
    Add(amino_acids, Mul(Div(Nstruct, Z(N_MOLAR_MASS)), Z(1000000)))

\* Roots.calculate_integrative_variables
Roots_calculate_integrative_variables(self) ==
    [self EXCEPT !.Total_Organic_Nitrogen =
        Roots_calculate_Total_Organic_Nitrogen(self, self.amino_acids, self.Nstruct)]

\* Roots.calculate_Unloading_Sucrose
Roots_calculate_Unloading_Sucrose(self, sucrose_phloem, mstruct_axis, delta_t) ==
    LET conc == Div(Max(Z(0), sucrose_phloem), Mul(mstruct_axis, parameters.AXIS_PARAMETERS.ALPHA))
    IN  Mul(Div(Mul(conc, parameters.ROOTS_PARAMETERS.VMAX_SUCROSE_UNLOADING),
                Add(conc, parameters.ROOTS_PARAMETERS.K_SUCROSE_UNLOADING)), delta_t)

\* Roots.calculate_Uptake_Nitrates: the pair (net_nitrate_uptake, HATS_LATS)
Roots_calculate_Uptake_Nitrates(self, Conc_Nitrates_Soil, nitrates_roots, sucrose_roots, delta_t) ==
    LET R == parameters.ROOTS_PARAMETERS
        conc == Div(nitrates_roots, self.mstruct)
        VMAX_HATS_MAX == Mul(R.A_VMAX_HATS, Exp(Mul(Neg(R.LAMBDA_VMAX_HATS), conc)))
        K_HATS == Mul(R.A_K_HATS, Exp(Mul(Neg(R.LAMBDA_K_HATS), conc)))
        HATS == Div(Mul(VMAX_HATS_MAX, Conc_Nitrates_Soil), Add(K_HATS, Conc_Nitrates_Soil))
        K_LATS == Mul(R.A_LATS, Exp(Mul(Neg(R.LAMBDA_LATS), conc)))
        LATS == Mul(K_LATS, Conc_Nitrates_Soil)
        HATS_LATS == Mul(Mul(Add(HATS, LATS), self.mstruct), delta_t)
        regul_C == Div(Div(sucrose_roots, self.mstruct), Add(Div(sucrose_roots, self.mstruct), R.K_C))
        net_nitrate_uptake == Mul(Mul(HATS_LATS, R.NET_INFLUX_UPTAKE_RATIO), regul_C)
    IN  <<net_nitrate_uptake, HATS_LATS>>

\* Roots.calculate_Unloading_Amino_Acids
Roots_calculate_Unloading_Amino_Acids(self, Unloading_Sucrose, sucrose_phloem, amino_acids_phloem) ==
    IF Le(amino_acids_phloem, Z(0))
    THEN Z(0)
    ELSE Mul(Unloading_Sucrose, Div(amino_acids_phloem, sucrose_phloem))

\* Roots.calculate_S_amino_acids
Roots_calculate_S_amino_acids(self, nitrates, sucrose, delta_t) ==
    LET R == parameters.ROOTS_PARAMETERS
        mstruct_ALPHA == Mul(self.mstruct, R.ALPHA)
    IN  Mul(Div(R.VMAX_AMINO_ACIDS,
                Mul(Add(Z(1), Div(R.K_AMINO_ACIDS_NITRATES, Div(nitrates, mstruct_ALPHA))),
                    Add(Z(1), Div(R.K_AMINO_ACIDS_SUCROSE, Div(sucrose, mstruct_ALPHA))))),
            delta_t)

\* Roots.calculate_Export_Nitrates
Roots_calculate_Export_Nitrates(self, nitrates, regul_transpiration, delta_t) ==
    IF Le(nitrates, Z(0)) \/ Le(regul_transpiration, Z(0))
    THEN Z(0)
    ELSE LET R == parameters.ROOTS_PARAMETERS
             f_nitrates == Mul(Div(nitrates, Mul(self.mstruct, R.ALPHA)), R.K_NITRATE_EXPORT)
         IN  Mul(Mul(Mul(f_nitrates, self.mstruct), regul_transpiration), delta_t)

\* calculate_Export_Amino_Acids clamped on regul_transpiration as calculate_Export_Nitrates is
Roots_calculate_Export_Amino_Acids_clamped(self, amino_acids, regul_transpiration, delta_t) ==
    IF Le(amino_acids, Z(0)) \/ Le(regul_transpiration, Z(0))
    THEN Z(0)
    ELSE LET R == parameters.ROOTS_PARAMETERS
             f_amino_acids == Mul(Div(amino_acids, Mul(self.mstruct, R.ALPHA)), R.K_AMINO_ACIDS_EXPORT)
         IN  Mul(Mul(Mul(f_amino_acids, self.mstruct), regul_transpiration), delta_t)

\* Roots.calculate_Export_Amino_Acids
Roots_calculate_Export_Amino_Acids(self, amino_acids, regul_transpiration, delta_t) ==
    IF Le(amino_acids, Z(0))
    THEN Z(0)
    ELSE LET R == parameters.ROOTS_PARAMETERS
             f_amino_acids == Mul(Div(amino_acids, Mul(self.mstruct, R.ALPHA)), R.K_AMINO_ACIDS_EXPORT)
         IN  Mul(Mul(Mul(f_amino_acids, self.mstruct), regul_transpiration), delta_t)

\* Roots.calculate_exudation: the pair (C_exudation, N_exudation)
Roots_calculate_exudation(self, Unloading_Sucrose, sucrose_roots, sucrose_phloem, amino_acids_roots, amino_acids_phloem) ==
    LET C_exudation == Min(sucrose_roots, Mul(Unloading_Sucrose, parameters.ROOTS_PARAMETERS.C_EXUDATION))
        N_exudation == IF \/ Le(amino_acids_phloem, Z(0))
                          \/ Le(amino_acids_roots, Z(0))
                          \/ Le(sucrose_roots, Z(0))
                       THEN Z(0)
                       ELSE Mul(Div(amino_acids_roots, sucrose_roots), C_exudation)
    IN  <<C_exudation, N_exudation>>

\* a sucrose derivative with the two ratios of the amino acids exchanged
Roots_calculate_sucrose_derivative_inverted(self, Unloading_Sucrose, S_Amino_Acids, C_exudation, sum_respi) ==
    LET sucrose_consumption_AA == Mul(Div(S_Amino_Acids, AMINO_ACIDS_C_RATIO), AMINO_ACIDS_N_RATIO)
    IN  Sub(Mul(Sub(Sub(Unloading_Sucrose, sucrose_consumption_AA), C_exudation), self.mstruct),
            sum_respi)

\* Roots.calculate_sucrose_derivative
Roots_calculate_sucrose_derivative(self, Unloading_Sucrose, S_Amino_Acids, C_exudation, sum_respi) ==
    LET sucrose_consumption_AA == Mul(Div(S_Amino_Acids, AMINO_ACIDS_N_RATIO), AMINO_ACIDS_C_RATIO)
    IN  Sub(Mul(Sub(Sub(Unloading_Sucrose, sucrose_consumption_AA), C_exudation), self.mstruct),
            sum_respi)

\* Roots.calculate_nitrates_derivative
Roots_calculate_nitrates_derivative(self, Uptake_Nitrates, Export_Nitrates, S_Amino_Acids) ==
    LET import_nitrates_roots == Uptake_Nitrates
        nitrate_reduction_AA == S_Amino_Acids
    IN  Sub(Sub(import_nitrates_roots, Export_Nitrates), Mul(nitrate_reduction_AA, self.mstruct))

\* Roots.calculate_amino_acids_derivative
Roots_calculate_amino_acids_derivative(self, Unloading_Amino_Acids, S_Amino_Acids, Export_Amino_Acids, N_exudation) ==
    Sub(Mul(Sub(Add(Unloading_Amino_Acids, S_Amino_Acids), N_exudation), self.mstruct),
        Export_Amino_Acids)

(***************************************************************************)
(* class Phloem.                                                           *)
(***************************************************************************)
\* Phloem.__init__
Phloem == [kind |-> "Phloem", sucrose |-> INIT_COMPARTMENTS, amino_acids |-> INIT_COMPARTMENTS]

\* contributor.__class__.PARAMETERS.ALPHA of a Roots contributor
Roots_ALPHA == parameters.ROOTS_PARAMETERS.ALPHA

\* calculate_sucrose_derivative counting a contributor once, however often it is supplied
RECURSIVE Phloem_calculate_sucrose_derivative_distinct(_, _)
Phloem_calculate_sucrose_derivative_distinct(self, contributors) ==
    IF contributors = <<>>
    THEN Z(0)
    ELSE LET n == Len(contributors)
             contributor == contributors[n]
             sucrose_derivative ==
                Phloem_calculate_sucrose_derivative_distinct(self, SubSeq(contributors, 1, n - 1))
         IN  IF \E i \in 1..(n - 1) : contributors[i] = contributor
             THEN sucrose_derivative
             ELSE CASE contributor.kind = "PhotosyntheticOrganElement" ->
                         Add(sucrose_derivative, contributor.Loading_Sucrose)
                    [] contributor.kind = "Grains" ->
                         Sub(sucrose_derivative,
                             Add(contributor.S_grain_structure,
                                 Mul(contributor.S_grain_starch, contributor.structural_dry_mass)))
                    [] contributor.kind = "Roots" ->
                         Sub(sucrose_derivative,
                             Mul(Mul(contributor.Unloading_Sucrose, contributor.mstruct), Roots_ALPHA))
                    [] contributor.kind = "HiddenZone" ->
                         Sub(sucrose_derivative, contributor.Unloading_Sucrose)
                    [] OTHER -> sucrose_derivative

\* Phloem.calculate_sucrose_derivative
RECURSIVE Phloem_calculate_sucrose_derivative(_, _)
Phloem_calculate_sucrose_derivative(self, contributors) ==
    IF contributors = <<>>
    THEN Z(0)
    ELSE LET n == Len(contributors)
             contributor == contributors[n]
             sucrose_derivative == Phloem_calculate_sucrose_derivative(self, SubSeq(contributors, 1, n - 1))
         IN  CASE contributor.kind = "PhotosyntheticOrganElement" ->
                    Add(sucrose_derivative, contributor.Loading_Sucrose)
               [] contributor.kind = "Grains" ->
                    Sub(sucrose_derivative,
                        Add(contributor.S_grain_structure,
                            Mul(contributor.S_grain_starch, contributor.structural_dry_mass)))
               [] contributor.kind = "Roots" ->
                    Sub(sucrose_derivative,
                        Mul(Mul(contributor.Unloading_Sucrose, contributor.mstruct), Roots_ALPHA))
               [] contributor.kind = "HiddenZone" ->
                    Sub(sucrose_derivative, contributor.Unloading_Sucrose)
               [] OTHER -> sucrose_derivative

\* Phloem.calculate_amino_acids_derivative
RECURSIVE Phloem_calculate_amino_acids_derivative(_, _)
Phloem_calculate_amino_acids_derivative(self, contributors) ==
    IF contributors = <<>>
    THEN Z(0)
    ELSE LET n == Len(contributors)
             contributor == contributors[n]
             amino_acids_derivative ==
                Phloem_calculate_amino_acids_derivative(self, SubSeq(contributors, 1, n - 1))
         IN  CASE contributor.kind = "PhotosyntheticOrganElement" ->
                    Add(amino_acids_derivative, contributor.Loading_Amino_Acids)
               [] contributor.kind = "Grains" ->
                    Sub(amino_acids_derivative, contributor.S_Proteins)
               [] contributor.kind = "Roots" ->
                    Sub(amino_acids_derivative,
                        Mul(Mul(contributor.Unloading_Amino_Acids, contributor.mstruct), Roots_ALPHA))
               [] contributor.kind = "HiddenZone" ->
                    Sub(amino_acids_derivative, contributor.Unloading_Amino_Acids)
               [] OTHER -> amino_acids_derivative

(***************************************************************************)
(* Evaluation of the flux laws and of the derivative functions.  organ is  *)
(* the entity whose methods are called; call records the last operation:   *)
(* its name, its explicit arguments and the value it returned.             *)
(***************************************************************************)
\* the explicit arguments each element method is called with
ElementArguments(fn) ==
    CASE fn \in {"calculate_Nitrates_import", "calculate_Amino_Acids_import", "calculate_cytokinins_import"} ->
            Amounts \X Transpirations \X Transpirations
      [] fn \in {"calculate_S_Starch", "calculate_D_Starch", "calculate_S_Sucrose",
                 "calculate_S_proteins"} ->
            Amounts \X DeltaTs
      [] fn = "calculate_Regul_S_Fructan" -> Loadings \X DeltaTs
      [] fn \in {"calculate_Loading_Sucrose", "calculate_Loading_Amino_Acids"} ->
            Amounts \X Amounts \X AxisMstructs \X DeltaTs
      [] fn \in {"calculate_export_sucrose", "calculate_Export_Amino_Acids"} ->
            Amounts \X Amounts \X AxisMstructs \X DeltaTs
      [] fn = "calculate_D_Proteins" -> Amounts \X Amounts \X DeltaTs
      [] fn = "calculate_S_Fructan" -> Amounts \X PositiveAmounts \X DeltaTs
      [] fn = "calculate_D_Fructan" -> Amounts \X Amounts \X DeltaTs0
      [] fn = "calculate_S_amino_acids" -> Amounts \X Amounts \X DeltaTs
      [] fn \in {"calculate_nitrates_derivative", "calculate_proteins_derivative"} -> Fluxes \X Fluxes
      [] fn = "calculate_amino_acids_derivative" -> Fluxes \X Fluxes \X Fluxes \X Fluxes \X Fluxes

ElementMethods ==
    {"calculate_Nitrates_import", "calculate_Amino_Acids_import", "calculate_cytokinins_import",
     "calculate_S_Starch", "calculate_D_Starch", "calculate_S_Sucrose", "calculate_S_proteins",
     "calculate_Regul_S_Fructan", "calculate_Loading_Sucrose", "calculate_export_sucrose",
     "calculate_S_Fructan", "calculate_D_Fructan", "calculate_S_amino_acids",
     "calculate_Loading_Amino_Acids", "calculate_Export_Amino_Acids", "calculate_D_Proteins",
     "calculate_nitrates_derivative", "calculate_amino_acids_derivative",
     "calculate_proteins_derivative"}

\* self.fn(*args) for an element
Element_call(self, fn, args) ==
    CASE fn = "calculate_Nitrates_import" -> Element_calculate_Nitrates_import(self, args[1], args[2], args[3])
      [] fn = "calculate_Amino_Acids_import" -> Element_calculate_Amino_Acids_import(self, args[1], args[2], args[3])
      [] fn = "calculate_cytokinins_import" -> Element_calculate_cytokinins_import(self, args[1], args[2], args[3])
      [] fn = "calculate_S_Starch" -> Element_calculate_S_Starch(self, args[1], args[2])
      [] fn = "calculate_D_Starch" -> Element_calculate_D_Starch(self, args[1], args[2])
      [] fn = "calculate_S_Sucrose" -> Element_calculate_S_Sucrose(self, args[1], args[2])
      [] fn = "calculate_S_proteins" -> Element_calculate_S_proteins(self, args[1], args[2])
      [] fn = "calculate_Regul_S_Fructan" -> Element_calculate_Regul_S_Fructan(self, args[1], args[2])
      [] fn = "calculate_Loading_Sucrose" -> Element_calculate_Loading_Sucrose(self, args[1], args[2], args[3], args[4])
      [] fn = "calculate_export_sucrose" -> Element_calculate_export_sucrose(self, args[1], args[2], args[3], args[4])
      [] fn = "calculate_Loading_Amino_Acids" -> Element_calculate_Loading_Amino_Acids(self, args[1], args[2], args[3], args[4])
      [] fn = "calculate_Export_Amino_Acids" -> Element_calculate_Export_Amino_Acids(self, args[1], args[2], args[3], args[4])
      [] fn = "calculate_D_Proteins" -> Element_calculate_D_Proteins(self, args[1], args[2], args[3])
      [] fn = "calculate_S_Fructan" -> Element_calculate_S_Fructan(self, args[1], args[2], args[3])
      [] fn = "calculate_D_Fructan" -> Element_calculate_D_Fructan(self, args[1], args[2], args[3])
      [] fn = "calculate_S_amino_acids" -> Element_calculate_S_amino_acids(self, args[1], args[2], args[3])
      [] fn = "calculate_nitrates_derivative" -> Element_calculate_nitrates_derivative(self, args[1], args[2])
      [] fn = "calculate_amino_acids_derivative" -> Element_calculate_amino_acids_derivative(self, args[1], args[2], args[3], args[4], args[5])
      [] fn = "calculate_proteins_derivative" -> Element_calculate_proteins_derivative(self, args[1], args[2])

HiddenZoneArguments(fn) ==
    CASE fn \in {"calculate_Unloading_Sucrose", "calculate_Unloading_Amino_Acids"} ->
            Amounts \X Amounts \X AxisMstructs \X DeltaTs
      [] fn \in {"calculate_S_proteins", "calculate_D_Proteins"} -> Amounts \X DeltaTs
      [] fn = "calculate_Regul_S_Fructan" -> Loadings \X DeltaTs
      [] fn = "calculate_S_Fructan" -> Amounts \X PositiveAmounts \X DeltaTs
      [] fn = "calculate_D_Fructan" -> Amounts \X Amounts \X DeltaTs0
      [] fn \in {"calculate_sucrose_derivative", "calculate_amino_acids_derivative"} ->
            Amounts \X Fluxes \X Fluxes \X Fluxes
      [] fn \in {"calculate_fructan_derivative", "calculate_proteins_derivative"} -> Fluxes \X Fluxes

HiddenZoneMethods ==
    {"calculate_Unloading_Sucrose", "calculate_Unloading_Amino_Acids", "calculate_S_proteins",
     "calculate_D_Proteins", "calculate_Regul_S_Fructan", "calculate_S_Fructan",
     "calculate_D_Fructan", "calculate_sucrose_derivative", "calculate_fructan_derivative",
     "calculate_amino_acids_derivative", "calculate_proteins_derivative"}

\* self.fn(*args) for a hidden zone
HiddenZone_call(self, fn, args) ==
    CASE fn = "calculate_Unloading_Sucrose" -> HiddenZone_calculate_Unloading_Sucrose(self, args[1], args[2], args[3], args[4])
      [] fn = "calculate_Unloading_Amino_Acids" -> HiddenZone_calculate_Unloading_Amino_Acids(self, args[1], args[2], args[3], args[4])
      [] fn = "calculate_S_proteins" -> HiddenZone_calculate_S_proteins(self, args[1], args[2])
      [] fn = "calculate_D_Proteins" -> HiddenZone_calculate_D_Proteins(self, args[1], args[2])
      [] fn = "calculate_Regul_S_Fructan" -> HiddenZone_calculate_Regul_S_Fructan(self, args[1], args[2])
      [] fn = "calculate_S_Fructan" -> HiddenZone_calculate_S_Fructan(self, args[1], args[2], args[3])
      [] fn = "calculate_D_Fructan" -> HiddenZone_calculate_D_Fructan(self, args[1], args[2], args[3])
      [] fn = "calculate_sucrose_derivative" -> HiddenZone_calculate_sucrose_derivative(self, args[1], args[2], args[3], args[4])
      [] fn = "calculate_fructan_derivative" -> HiddenZone_calculate_fructan_derivative(self, args[1], args[2])
      [] fn = "calculate_amino_acids_derivative" -> HiddenZone_calculate_amino_acids_derivative(self, args[1], args[2], args[3], args[4])
      [] fn = "calculate_proteins_derivative" -> HiddenZone_calculate_proteins_derivative(self, args[1], args[2])

GrainsArguments(fn) ==
    CASE fn = "calculate_RGR_Structure" -> Amounts \X AxisMstructs
      [] fn = "calculate_S_grain_structure" -> PositiveAmounts \X PositiveAmounts \X DeltaTs
      [] fn = "calculate_S_grain_starch" -> Amounts \X AxisMstructs \X DeltaTs
      [] fn = "calculate_S_proteins" -> Fluxes \X Fluxes \X Amounts \X Amounts \X PositiveAmounts
      [] fn = "calculate_structure_derivative" -> Fluxes \X Fluxes
      [] fn = "calculate_starch_derivative" -> Fluxes \X PositiveAmounts \X Fluxes
      [] fn = "calculate_proteins_derivative" -> {<<S_Proteins>> : S_Proteins \in Fluxes}

GrainsMethods ==
    {"calculate_RGR_Structure", "calculate_S_grain_structure", "calculate_S_grain_starch",
     "calculate_S_proteins", "calculate_structure_derivative", "calculate_starch_derivative",
     "calculate_proteins_derivative"}

\* self.fn(*args) for grains
Grains_call(self, fn, args) ==
    CASE fn = "calculate_RGR_Structure" -> Grains_calculate_RGR_Structure(self, args[1], args[2])
      [] fn = "calculate_S_grain_structure" -> Grains_calculate_S_grain_structure(self, args[1], args[2], args[3])
      [] fn = "calculate_S_grain_starch" -> Grains_calculate_S_grain_starch(self, args[1], args[2], args[3])
      [] fn = "calculate_S_proteins" -> Grains_calculate_S_proteins(self, args[1], args[2], args[3], args[4], args[5])
      [] fn = "calculate_structure_derivative" -> Grains_calculate_structure_derivative(self, args[1], args[2])
      [] fn = "calculate_starch_derivative" -> Grains_calculate_starch_derivative(self, args[1], args[2], args[3])
      [] fn = "calculate_proteins_derivative" -> Grains_calculate_proteins_derivative(self, args[1])

RootsArguments(fn) ==
    CASE fn = "calculate_Unloading_Sucrose" -> Amounts \X AxisMstructs \X DeltaTs
      [] fn = "calculate_Uptake_Nitrates" -> Fluxes \X Fluxes \X Amounts \X DeltaTs
      [] fn = "calculate_Unloading_Amino_Acids" -> Fluxes \X Amounts \X Amounts
      [] fn \in {"calculate_S_amino_acids", "calculate_Export_Nitrates", "calculate_Export_Amino_Acids"} ->
            Amounts \X Amounts \X DeltaTs
      [] fn = "calculate_exudation" -> Fluxes \X Amounts \X PositiveAmounts \X Loadings \X Amounts
      [] fn \in {"calculate_sucrose_derivative", "calculate_amino_acids_derivative"} ->
            Fluxes \X Fluxes \X Fluxes \X Fluxes
      [] fn = "calculate_nitrates_derivative" -> Fluxes \X Fluxes \X Fluxes

RootsMethods ==
    {"calculate_Unloading_Sucrose", "calculate_Uptake_Nitrates", "calculate_Unloading_Amino_Acids",
     "calculate_S_amino_acids", "calculate_Export_Nitrates", "calculate_Export_Amino_Acids",
     "calculate_exudation", "calculate_sucrose_derivative", "calculate_nitrates_derivative",
     "calculate_amino_acids_derivative"}

\* self.fn(*args) for roots
Roots_call(self, fn, args) ==
    CASE fn = "calculate_Unloading_Sucrose" -> Roots_calculate_Unloading_Sucrose(self, args[1], args[2], args[3])
      [] fn = "calculate_Uptake_Nitrates" -> Roots_calculate_Uptake_Nitrates(self, args[1], args[2], args[3], args[4])
      [] fn = "calculate_Unloading_Amino_Acids" -> Roots_calculate_Unloading_Amino_Acids(self, args[1], args[2], args[3])
      [] fn = "calculate_S_amino_acids" -> Roots_calculate_S_amino_acids(self, args[1], args[2], args[3])
      [] fn = "calculate_Export_Nitrates" -> Roots_calculate_Export_Nitrates(self, args[1], args[2], args[3])
      [] fn = "calculate_Export_Amino_Acids" -> Roots_calculate_Export_Amino_Acids(self, args[1], args[2], args[3])
      [] fn = "calculate_exudation" -> Roots_calculate_exudation(self, args[1], args[2], args[3], args[4], args[5])
      [] fn = "calculate_sucrose_derivative" -> Roots_calculate_sucrose_derivative(self, args[1], args[2], args[3], args[4])
      [] fn = "calculate_nitrates_derivative" -> Roots_calculate_nitrates_derivative(self, args[1], args[2], args[3])
      [] fn = "calculate_amino_acids_derivative" -> Roots_calculate_amino_acids_derivative(self, args[1], args[2], args[3], args[4])

(***************************************************************************)
(* class Soil.                                                             *)
(***************************************************************************)
\* Soil.__init__
Soil(volume, nitrates, Tsoil) ==
    [kind |-> "Soil", volume |-> volume, Tsoil |-> Tsoil, nitrates |-> nitrates,
     Conc_Nitrates_Soil |-> None, mineralisation |-> None,
     MINERALISATION_RATE |-> Raise("AttributeError")]

\* Soil.initialize
Soil_initialize(self, delta_t) ==
    [self EXCEPT !.MINERALISATION_RATE = Mul(parameters.SOIL_PARAMETERS.MINERALISATION_RATE, delta_t)]

\* Soil.calculate_Conc_Nitrates
Soil_calculate_Conc_Nitrates(self, nitrates) == Max(Z(0), Div(nitrates, self.volume))

\* Soil.calculate_mineralisation
Soil_calculate_mineralisation(self) == self.MINERALISATION_RATE

\* an uptake assigned, not added: the last contributor alone is counted
Soil_Uptake_Nitrates_assigned(soil_contributors, culm_density) ==
    IF soil_contributors = <<>>
    THEN Z(0)
    ELSE LET n == Len(soil_contributors)
             root_uptake == soil_contributors[n][1]
             plant_id == soil_contributors[n][2]
         IN  Mul(root_uptake, culm_density[plant_id])

\* Soil.calculate_nitrates_derivative
RECURSIVE Soil_Uptake_Nitrates(_, _)
Soil_Uptake_Nitrates(soil_contributors, culm_density) ==
    IF soil_contributors = <<>>
    THEN Z(0)
    ELSE LET n == Len(soil_contributors)
             root_uptake == soil_contributors[n][1]
             plant_id == soil_contributors[n][2]
         IN  Add(Soil_Uptake_Nitrates(SubSeq(soil_contributors, 1, n - 1), culm_density),
                 Mul(root_uptake, culm_density[plant_id]))

Soil_calculate_nitrates_derivative(self, mineralisation, soil_contributors, culm_density) ==
    Sub(mineralisation, Soil_Uptake_Nitrates(soil_contributors, culm_density))

\* the plants and the culm density of each
PlantIds == 1..2

CulmDensity == [plant_id \in PlantIds |-> Z(plant_id)]

SoilContributorLists == UNION {[1..n -> Fluxes \X PlantIds] : n \in 0..MaxContributors}

SoilArguments(fn) ==
    CASE fn = "calculate_Conc_Nitrates" -> {<<nitrates>> : nitrates \in Amounts}
      [] fn = "calculate_mineralisation" -> {<<>>}
      [] fn = "calculate_nitrates_derivative" -> Fluxes \X SoilContributorLists \X {CulmDensity}

SoilMethods == {"calculate_Conc_Nitrates", "calculate_mineralisation", "calculate_nitrates_derivative"}

\* self.fn(*args) for the soil
Soil_call(self, fn, args) ==
    CASE fn = "calculate_Conc_Nitrates" -> Soil_calculate_Conc_Nitrates(self, args[1])
      [] fn = "calculate_mineralisation" -> Soil_calculate_mineralisation(self)
      [] fn = "calculate_nitrates_derivative" -> Soil_calculate_nitrates_derivative(self, args[1], args[2], args[3])

\* no call is in progress: the caller has taken the value the last call returned
NoCall == [fn |-> "", args |-> <<>>, ret |-> None]

\* the caller receives the returned value; no attribute is assigned
Returns(fn, args, ret) ==
    /\ call = NoCall
    /\ call' = [fn |-> fn, args |-> args, ret |-> ret]
    /\ UNCHANGED <<parameters, organ, population>>

\* the flux laws of PhotosyntheticOrganElement, the loading kept in self.Loading_Sucrose
Eval_Element_storing ==
    /\ organ.kind = "PhotosyntheticOrganElement"
    /\ call = NoCall
    /\ \E fn \in ElementMethods : \E args \in ElementArguments(fn) :
          /\ call' = [fn |-> fn, args |-> args, ret |-> Element_call(organ, fn, args)]
          /\ organ' = IF fn = "calculate_Loading_Sucrose"
                       THEN [organ EXCEPT !.Loading_Sucrose = Element_call(organ, fn, args)]
                       ELSE organ
    /\ UNCHANGED <<parameters, population>>

\* the flux laws of PhotosyntheticOrganElement
Eval_Element ==
    /\ organ.kind = "PhotosyntheticOrganElement"
    /\ call = NoCall
    /\ \E fn \in ElementMethods : \E args \in ElementArguments(fn) :
          Returns(fn, args, Element_call(organ, fn, args))

\* the flux laws and derivative functions of HiddenZone
Eval_HiddenZone ==
    /\ organ.kind = "HiddenZone"
    /\ call = NoCall
    /\ \E fn \in HiddenZoneMethods : \E args \in HiddenZoneArguments(fn) :
          Returns(fn, args, HiddenZone_call(organ, fn, args))

\* the flux laws of Grains
Eval_Grains ==
    /\ organ.kind = "Grains"
    /\ call = NoCall
    /\ \E fn \in GrainsMethods : \E args \in GrainsArguments(fn) :
          Returns(fn, args, Grains_call(organ, fn, args))

\* the flux laws of Roots
Eval_Roots ==
    /\ organ.kind = "Roots"
    /\ call = NoCall
    /\ \E fn \in RootsMethods : \E args \in RootsArguments(fn) :
          Returns(fn, args, Roots_call(organ, fn, args))

\* the four carbon derivatives of an element at one trial state:
\* (triosesP, starch, sucrose, fructan) from the fluxes S_Sucrose, S_Starch, D_Starch,
\* S_Fructan, D_Fructan and the exchanges of the element with the outside
\* (Photosynthesis, S_Amino_Acids, Loading_Sucrose and sum_respi, here of one size)
Eval_Element_carbon_derivatives ==
    /\ organ.kind = "PhotosyntheticOrganElement"
    /\ call = NoCall
    /\ \E exchange \in Fluxes :
       \E S_Sucrose \in Fluxes, S_Starch \in Fluxes, D_Starch \in Fluxes,
          S_Fructan \in Fluxes, D_Fructan \in Fluxes :
          Returns("carbon_derivatives",
                  <<exchange, S_Sucrose, S_Starch, D_Starch, S_Fructan, D_Fructan>>,
                  <<Element_calculate_triosesP_derivative(organ, exchange, S_Sucrose, S_Starch, exchange),
                    Element_calculate_starch_derivative(organ, S_Starch, D_Starch),
                    Element_calculate_sucrose_derivative(organ, S_Sucrose, D_Starch, exchange,
                                                         S_Fructan, D_Fructan, exchange),
                    Element_calculate_fructan_derivative(organ, S_Fructan, D_Fructan)>>)

\* the contributors handed to the phloem, with the fluxes the caller stored on them
Contributors ==
    {[PhotosyntheticOrganElement("LaminaElement", Z(1), INIT_COMPARTMENTS, INIT_COMPARTMENTS, INIT_COMPARTMENTS)
        EXCEPT !.Loading_Sucrose = Z(2), !.Loading_Amino_Acids = Z(3)],
     [Grains(Z(1), INIT_COMPARTMENTS)
        EXCEPT !.S_grain_structure = Z(1), !.S_grain_starch = Z(1), !.structural_dry_mass = Q(1, 2),
               !.S_Proteins = Z(1)],
     [Roots(Z(8), INIT_COMPARTMENTS, INIT_COMPARTMENTS)
        EXCEPT !.Unloading_Sucrose = Z(1), !.Unloading_Amino_Acids = Q(1, 2)],
     [HiddenZone(Z(1)) EXCEPT !.Unloading_Sucrose = Z(1), !.Unloading_Amino_Acids = Z(-1)],
     Phloem}

\* the contributor collections: every sequence of at most MaxContributors contributors
ContributorLists == UNION {[1..n -> Contributors] : n \in 0..MaxContributors}

\* the two derivatives of Phloem
Eval_Phloem ==
    /\ organ.kind = "Phloem"
    /\ call = NoCall
    /\ \E contributors \in ContributorLists :
          \/ Returns("calculate_sucrose_derivative", <<contributors>>,
                     Phloem_calculate_sucrose_derivative(organ, contributors))
          \/ Returns("calculate_amino_acids_derivative", <<contributors>>,
                     Phloem_calculate_amino_acids_derivative(organ, contributors))

\* the flux laws and the derivative of Soil
Eval_Soil ==
    /\ organ.kind = "Soil"
    /\ call = NoCall
    /\ \E fn \in SoilMethods : \E args \in SoilArguments(fn) :
          Returns(fn, args, Soil_call(organ, fn, args))

\* soil.initialize(delta_t)
Initialize_Soil ==
    /\ organ.kind = "Soil"
    /\ call = NoCall
    /\ \E delta_t \in DeltaTs : organ' = Soil_initialize(organ, delta_t)
    /\ UNCHANGED <<parameters, population, call>>

\* element.initialize(delta_t)
Initialize_Element ==
    /\ organ.kind = "PhotosyntheticOrganElement"
    /\ call = NoCall
    /\ \E delta_t \in DeltaTs : organ' = Element_initialize(organ, delta_t)
    /\ UNCHANGED <<parameters, population, call>>

\* the growth model gives an initialised element a larger structural mass between
\* two integration calls
Growth_Element ==
    /\ organ.kind = "PhotosyntheticOrganElement"
    /\ call = NoCall
    /\ organ.mstruct = Z(1)
    /\ \A a \in ElementDerivedAttributes : IsNum(organ.derived[a])
    /\ \E mstruct \in {m \in AxisMstructs : Lt(organ.mstruct, m)} :
          organ' = [organ EXCEPT !.mstruct = mstruct]
    /\ UNCHANGED <<parameters, population, call>>

\* grains.initialize()
Initialize_Grains ==
    /\ organ.kind = "Grains"
    /\ call = NoCall
    /\ organ' = Grains_initialize(organ)
    /\ UNCHANGED <<parameters, population, call>>

\* the caller takes the returned value and goes on
Resume ==
    /\ call # NoCall
    /\ call' = NoCall
    /\ UNCHANGED <<parameters, organ, population>>

\* the entities whose methods are evaluated, as constructed
Organs ==
    {PhotosyntheticOrganElement("LaminaElement", m, INIT_COMPARTMENTS, INIT_COMPARTMENTS, INIT_COMPARTMENTS) :
        m \in Mstructs \cup {Z(0)}}
    \cup {HiddenZone(m) : m \in Mstructs \cup {Z(0)}}
    \cup {Roots(m, INIT_COMPARTMENTS, INIT_COMPARTMENTS) : m \in Mstructs \cup {Z(0)}}
    \cup {Grains(a, INIT_COMPARTMENTS) : a \in Ages}
    \cup {Phloem}
    \cup {Soil(volume, INIT_COMPARTMENTS, INIT_COMPARTMENTS) : volume \in AxisMstructs}

Init ==
    /\ parameters \in ParameterTables
    /\ organ \in Organs
    /\ population = <<>>
    /\ call = NoCall

Next ==
    \/ Initialize_Element
    \/ Initialize_Grains
    \/ Eval_Element
    \/ Eval_HiddenZone
    \/ Eval_Grains
    \/ Eval_Roots
    \/ Eval_Element_carbon_derivatives
    \/ Eval_Phloem
    \/ Eval_Soil
    \/ Initialize_Soil
    \/ Growth_Element
    \/ Resume

Spec == Init /\ [][Next]_vars

(***************************************************************************)
(* The tree population > plant > axis > phytomer > organ > element and its *)
(* aggregation pass.  An absent child is None.  A pass returns the entity  *)
(* as it has been written so far and the exception raised, "" for none.    *)
(***************************************************************************)
\* the leaves of the trees carry at most MaxTreeMstruct g of structural mass
MaxTreeMstruct == 2

TreeMstructs == {Z(i) : i \in 1..MaxTreeMstruct}

\* Population.__init__
Population(plants) == [kind |-> "Population", plants |-> plants]

\* Plant.__init__
Plant(axes) == [kind |-> "Plant", axes |-> axes]

\* Axis.__init__
Axis(roots, phloem, grains, phytomers) ==
    [kind |-> "Axis", roots |-> roots, phloem |-> phloem, grains |-> grains,
     phytomers |-> phytomers, mstruct |-> None, Total_Transpiration |-> None]

\* Phytomer.__init__
Phytomer(chaff, peduncle, lamina, internode, sheath, hiddenzone) ==
    [kind |-> "Phytomer", chaff |-> chaff, peduncle |-> peduncle, lamina |-> lamina,
     internode |-> internode, sheath |-> sheath, hiddenzone |-> hiddenzone, mstruct |-> None]

\* PhotosyntheticOrgan.__init__
PhotosyntheticOrgan(class, exposed_element, enclosed_element) ==
    [kind |-> "PhotosyntheticOrgan", class |-> class, exposed_element |-> exposed_element,
     enclosed_element |-> enclosed_element, mstruct |-> None]

\* the method returned normally, self as written
Return(self) == [self |-> self, exc |-> ""]

\* a local variable: x is evaluated once and F applied to its value
Bind(x, F(_)) == CHOOSE y \in {F(v) : v \in {x}} : TRUE

\* self.mstruct += x: None as an operand raises TypeError and nothing is assigned
AddAssign_mstruct(self, x) ==
    Bind(Add(self.mstruct, x), LAMBDA sum :
        IF IsNum(sum) THEN Return([self EXCEPT !.mstruct = sum])
        ELSE [self |-> self, exc |-> sum.err])

\* Organ.calculate_integrative_variables: pass (hidden zone, phloem, grains)
Organ_calculate_integrative_variables(self) == self

ElementSlots == <<"exposed_element", "enclosed_element">>

\* the loop of PhotosyntheticOrgan.calculate_integrative_variables from its i-th element
RECURSIVE PhotosyntheticOrgan_elements(_, _)
PhotosyntheticOrgan_elements(r0, i) ==
    Bind(r0, LAMBDA r :
        IF i > Len(ElementSlots) \/ r.exc # "" THEN r
        ELSE IF r.self[ElementSlots[i]] = None THEN PhotosyntheticOrgan_elements(r, i + 1)
        ELSE Bind(Element_calculate_integrative_variables(r.self[ElementSlots[i]]), LAMBDA element :
                PhotosyntheticOrgan_elements(
                    AddAssign_mstruct([r.self EXCEPT ![ElementSlots[i]] = element], element.mstruct),
                    i + 1)))

\* calculate_integrative_variables adding to the mstruct of the last pass
PhotosyntheticOrgan_calculate_integrative_variables_accumulating(self) ==
    PhotosyntheticOrgan_elements(
        Return([self EXCEPT !.mstruct = IF self.mstruct = None THEN Z(0) ELSE self.mstruct]), 1)

\* PhotosyntheticOrgan.calculate_integrative_variables
PhotosyntheticOrgan_calculate_integrative_variables(self) ==
    PhotosyntheticOrgan_elements(Return([self EXCEPT !.mstruct = Z(0)]), 1)

PhytomerSlots == <<"chaff", "peduncle", "lamina", "internode", "sheath", "hiddenzone">>

\* organ_.calculate_integrative_variables() of an organ of a phytomer
Phytomer_organ(organ_) ==
    IF organ_.kind = "PhotosyntheticOrgan"
    THEN PhotosyntheticOrgan_calculate_integrative_variables(organ_)
    ELSE Return(Organ_calculate_integrative_variables(organ_))

\* the loop of Phytomer.calculate_integrative_variables from its i-th organ
RECURSIVE Phytomer_organs(_, _)
Phytomer_organs(r0, i) ==
    Bind(r0, LAMBDA r :
        IF i > Len(PhytomerSlots) \/ r.exc # "" THEN r
        ELSE IF r.self[PhytomerSlots[i]] = None THEN Phytomer_organs(r, i + 1)
        ELSE Bind(Phytomer_organ(r.self[PhytomerSlots[i]]), LAMBDA c :
                IF c.exc # "" THEN [self |-> [r.self EXCEPT ![PhytomerSlots[i]] = c.self], exc |-> c.exc]
                ELSE Phytomer_organs(
                        AddAssign_mstruct([r.self EXCEPT ![PhytomerSlots[i]] = c.self], c.self.mstruct),
                        i + 1)))

\* Phytomer.calculate_integrative_variables
Phytomer_calculate_integrative_variables(self) ==
    Phytomer_organs(Return([self EXCEPT !.mstruct = Z(0)]), 1)

\* the loop of Axis.calculate_integrative_variables over its phytomers, from the i-th
RECURSIVE Axis_phytomers(_, _)
Axis_phytomers(r0, i) ==
    Bind(r0, LAMBDA r :
        IF i > Len(r.self.phytomers) \/ r.exc # "" THEN r
        ELSE Bind(Phytomer_calculate_integrative_variables(r.self.phytomers[i]), LAMBDA c :
                IF c.exc # "" THEN [self |-> [r.self EXCEPT !.phytomers[i] = c.self], exc |-> c.exc]
                ELSE Axis_phytomers(
                        AddAssign_mstruct([r.self EXCEPT !.phytomers[i] = c.self], c.self.mstruct),
                        i + 1)))

\* the roots of Axis.calculate_integrative_variables
Axis_roots(self) ==
    IF self.roots = None THEN Return(self)
    ELSE Bind(Roots_calculate_integrative_variables(self.roots), LAMBDA roots :
            AddAssign_mstruct([self EXCEPT !.roots = roots], roots.mstruct))

\* the phloem of Axis.calculate_integrative_variables
Axis_phloem(self) ==
    IF self.phloem = None THEN Return(self)
    ELSE Return([self EXCEPT !.phloem = Organ_calculate_integrative_variables(self.phloem)])

\* the grains of Axis.calculate_integrative_variables
Axis_grains(self) ==
    IF self.grains = None THEN Return(self)
    ELSE Bind(Organ_calculate_integrative_variables(self.grains), LAMBDA grains :
            AddAssign_mstruct([self EXCEPT !.grains = grains], grains.structural_dry_mass))

\* calculate_integrative_variables leaving the grains out of the mass of the axis
Axis_calculate_integrative_variables_grainless(self) ==
    Bind(Axis_roots([self EXCEPT !.mstruct = Z(0)]), LAMBDA r1 :
    Bind(IF r1.exc # "" THEN r1 ELSE Axis_phloem(r1.self), LAMBDA r2 :
         Axis_phytomers(r2, 1)))

\* Axis.calculate_integrative_variables
Axis_calculate_integrative_variables(self) ==
    Bind(Axis_roots([self EXCEPT !.mstruct = Z(0)]), LAMBDA r1 :
    Bind(IF r1.exc # "" THEN r1 ELSE Axis_phloem(r1.self), LAMBDA r2 :
    Bind(IF r2.exc # "" THEN r2 ELSE Axis_grains(r2.self), LAMBDA r3 :
         Axis_phytomers(r3, 1))))

\* the loop of Plant.calculate_integrative_variables from its i-th axis
RECURSIVE Plant_axes(_, _)
Plant_axes(r0, i) ==
    Bind(r0, LAMBDA r :
        IF i > Len(r.self.axes) \/ r.exc # "" THEN r
        ELSE Bind(Axis_calculate_integrative_variables(r.self.axes[i]), LAMBDA c :
                Plant_axes([self |-> [r.self EXCEPT !.axes[i] = c.self], exc |-> c.exc], i + 1)))

\* Plant.calculate_integrative_variables
Plant_calculate_integrative_variables(self) == Plant_axes(Return(self), 1)

\* the loop of Population.calculate_integrative_variables from its i-th plant
RECURSIVE Population_plants(_, _)
Population_plants(r0, i) ==
    Bind(r0, LAMBDA r :
        IF i > Len(r.self.plants) \/ r.exc # "" THEN r
        ELSE Bind(Plant_calculate_integrative_variables(r.self.plants[i]), LAMBDA c :
                Population_plants([self |-> [r.self EXCEPT !.plants[i] = c.self], exc |-> c.exc], i + 1)))

\* Population.calculate_integrative_variables
Population_calculate_integrative_variables(self) == Population_plants(Return(self), 1)

\* an element, a hidden zone and roots as constructed, with 1 g of structural mass
TreeElement(class) ==
    PhotosyntheticOrganElement(class, Z(1), INIT_COMPARTMENTS, INIT_COMPARTMENTS, INIT_COMPARTMENTS)

TreeHiddenZone == HiddenZone(Z(1))

TreeRoots == Roots(Z(1), INIT_COMPARTMENTS, INIT_COMPARTMENTS)

\* the populations the passes run on: one axis with roots and one lamina element; one
\* axis with grains, a lamina of two elements and a hidden zone on a second phytomer;
\* two plants, the first of two axes, with axes that have no roots and no phloem
Populations ==
    {Population(<<Plant(<<
        Axis(TreeRoots, Phloem, None,
             <<Phytomer(None, None, PhotosyntheticOrgan("Lamina", TreeElement("LaminaElement"), None),
                        None, None, None)>>)>>)>>),
     Population(<<Plant(<<
        Axis(TreeRoots, Phloem, Grains(Z(1), INIT_COMPARTMENTS),
             <<Phytomer(None, None,
                        PhotosyntheticOrgan("Lamina", TreeElement("LaminaElement"), TreeElement("LaminaElement")),
                        None, None, None),
               Phytomer(None, None, None, None, None, TreeHiddenZone)>>)>>)>>),
     Population(<<
        Plant(<<Axis(TreeRoots, Phloem, None,
                     <<Phytomer(None, None, None, None,
                                PhotosyntheticOrgan("Sheath", TreeElement("SheathElement"), None), None)>>),
                Axis(None, None, None,
                     <<Phytomer(None, None, None, None, None, TreeHiddenZone)>>)>>),
        Plant(<<Axis(None, None, None,
                     <<Phytomer(None, None, None, None, None, TreeHiddenZone)>>)>>)>>)}

\* the axes of the population, as pairs (plant, axis) of indices
AxisIndices ==
    {ij \in (1..Len(population.plants)) \X (1..2) : ij[2] <= Len(population.plants[ij[1]].axes)}

\* the phytomers of the population, as triples (plant, axis, phytomer) of indices
PhytomerIndices ==
    {ijk \in (1..Len(population.plants)) \X (1..2) \X (1..2) :
        /\ ijk[2] <= Len(population.plants[ijk[1]].axes)
        /\ ijk[3] <= Len(population.plants[ijk[1]].axes[ijk[2]].phytomers)}

\* population.calculate_integrative_variables()
CalculateIntegrativeVariables ==
    /\ \E r \in {Population_calculate_integrative_variables(population)} :
          /\ population' = r.self
          /\ call' = [fn |-> "calculate_integrative_variables", args |-> <<>>,
                      ret |-> IF r.exc = "" THEN None ELSE Raise(r.exc)]
    /\ UNCHANGED <<parameters, organ>>

\* the growth model assigns roots.mstruct
SetRootsMstruct ==
    /\ \E ij \in AxisIndices, mstruct \in TreeMstructs :
          /\ population.plants[ij[1]].axes[ij[2]].roots # None
          /\ population' = [population EXCEPT !.plants[ij[1]].axes[ij[2]].roots.mstruct = mstruct]
    /\ call' = NoCall
    /\ UNCHANGED <<parameters, organ>>

\* the growth model assigns hiddenzone.mstruct
SetHiddenZoneMstruct ==
    /\ \E ijk \in PhytomerIndices, mstruct \in TreeMstructs :
          /\ population.plants[ijk[1]].axes[ijk[2]].phytomers[ijk[3]].hiddenzone # None
          /\ population' = [population EXCEPT
                !.plants[ijk[1]].axes[ijk[2]].phytomers[ijk[3]].hiddenzone.mstruct = mstruct]
    /\ call' = NoCall
    /\ UNCHANGED <<parameters, organ>>

\* the growth model assigns element.mstruct
SetElementMstruct ==
    /\ \E ijk \in PhytomerIndices, mstruct \in TreeMstructs :
       \E o \in {"chaff", "peduncle", "lamina", "internode", "sheath"} :
       \E e \in {"exposed_element", "enclosed_element"} :
          LET phytomer == population.plants[ijk[1]].axes[ijk[2]].phytomers[ijk[3]]
          IN  /\ phytomer[o] # None
              /\ phytomer[o][e] # None
              /\ population' = [population EXCEPT
                    !.plants[ijk[1]].axes[ijk[2]].phytomers[ijk[3]][o][e].mstruct = mstruct]
    /\ call' = NoCall
    /\ UNCHANGED <<parameters, organ>>

\* grains.initialize() on the grains of an axis
InitializeAxisGrains ==
    /\ \E ij \in AxisIndices :
          /\ population.plants[ij[1]].axes[ij[2]].grains # None
          /\ population' = [population EXCEPT
                !.plants[ij[1]].axes[ij[2]].grains = Grains_initialize(@)]
    /\ call' = NoCall
    /\ UNCHANGED <<parameters, organ>>

\* the structure (umol C) of grains that have grown from INIT_COMPARTMENTS
GrainStructures == {Add(INIT_COMPARTMENTS, Z(1))}

\* the integrator assigns grains.structure
SetGrainsStructure ==
    /\ \E ij \in AxisIndices, structure \in GrainStructures :
          /\ population.plants[ij[1]].axes[ij[2]].grains # None
          /\ population' = [population EXCEPT !.plants[ij[1]].axes[ij[2]].grains.structure = structure]
    /\ call' = NoCall
    /\ UNCHANGED <<parameters, organ>>

\* the aggregation pass reads no parameter
InitTree ==
    /\ parameters = ParameterTable(Z(1), Z(1), Z(1))
    /\ organ = None
    /\ population \in Populations
    /\ call = NoCall

NextTree ==
    \/ CalculateIntegrativeVariables
    \/ SetRootsMstruct
    \/ SetHiddenZoneMstruct
    \/ SetElementMstruct
    \/ InitializeAxisGrains
    \/ SetGrainsStructure

SpecTree == InitTree /\ [][NextTree]_vars

(***************************************************************************)
(* Properties of the flux laws and of the derivatives.                     *)
(***************************************************************************)
\* the derived attributes of the element have been set by initialize(delta_t)
Initialized ==
    /\ organ.kind = "PhotosyntheticOrganElement"
    /\ \A a \in ElementDerivedAttributes : IsNum(organ.derived[a])

\* the structural mass of the entity, where it has one, is positive
PositiveMstruct ==
    organ.kind \in {"PhotosyntheticOrganElement", "HiddenZone", "Roots"} => Lt(Z(0), organ.mstruct)

ImportMethods == {"calculate_Nitrates_import", "calculate_Amino_Acids_import", "calculate_cytokinins_import"}

\* C1: when the total transpiration handed to an element is zero or negative, its
\* nitrates, amino acids and cytokinins imports return exactly 0: no division is made
\* and no error is raised, whatever the roots export and the element transpiration.
C1_ImportsZeroWithoutTranspiration ==
    (/\ organ.kind = "PhotosyntheticOrganElement"
     /\ call.fn \in ImportMethods
     /\ Le(call.args[3], Z(0)))
    => call.ret = Z(0)

C1_Witness ==
    /\ organ.kind = "PhotosyntheticOrganElement"
    /\ call.fn = "calculate_Nitrates_import"
    /\ call.args = <<Z(1), Z(1), Z(0)>>
    /\ call.ret = Z(0)

\* C2: the fructan degradation of an initialised element and of a hidden zone is
\* min(D_potential, max(0, fructan)): it lies between 0 and the available pool,
\* and is 0 when the pool is zero or negative.
C2_DFructanCapped ==
    (/\ call.fn = "calculate_D_Fructan"
     /\ Initialized \/ organ.kind = "HiddenZone"
     /\ PositiveMstruct)
    => LET d_potential == IF organ.kind = "HiddenZone"
                          THEN HiddenZone_d_potential(organ, call.args[1], call.args[3])
                          ELSE Element_d_potential(organ, call.args[1])
           pool == Max(Z(0), call.args[2])
       IN  /\ IsNum(call.ret)
           /\ Le(Z(0), call.ret)
           /\ Le(call.ret, pool)
           /\ call.ret = Min(d_potential, pool)
           /\ Le(call.args[2], Z(0)) => call.ret = Z(0)

\* the pool, smaller than the potential degradation, is what is degraded
C2_Witness ==
    /\ Initialized
    /\ call.fn = "calculate_D_Fructan"
    /\ call.args[2] = Z(1)
    /\ call.ret = Z(1)
    /\ Lt(Z(1), Element_d_potential(organ, call.args[1]))

ClampedMethods ==
    CASE organ.kind = "PhotosyntheticOrganElement" ->
            {"calculate_S_Starch", "calculate_S_Sucrose", "calculate_S_proteins", "calculate_S_Fructan"}
      [] organ.kind = "HiddenZone" -> {"calculate_S_proteins", "calculate_S_Fructan"}
      [] organ.kind = "Roots" -> {"calculate_Unloading_Sucrose"}
      [] organ.kind = "Grains" -> {"calculate_S_grain_starch"}
      [] OTHER -> {}

\* C4: starch, sucrose, protein and fructan synthesis, the sucrose unloading of the
\* roots and the starch synthesis of the grains return exactly 0 when their substrate
\* is zero or negative.
C4_NoSynthesisWithoutSubstrate ==
    (/\ call.fn \in ClampedMethods
     /\ organ.kind = "PhotosyntheticOrganElement" => Initialized
     /\ PositiveMstruct
     /\ Le(call.args[1], Z(0)))
    => call.ret = Z(0)

C4_Witness ==
    /\ Initialized
    /\ call.fn = "calculate_S_Starch"
    /\ call.args[1] = Z(-1)
    /\ call.ret = Z(0)

\* C7: in an element without photosynthesis, loading, respiration and amino acids
\* synthesis, the derivatives of triosesP, starch, sucrose and fructan sum to zero.
C7_CarbonConserved ==
    (/\ call.fn = "carbon_derivatives"
     /\ call.args[1] = Z(0))
    => Add(Add(call.ret[1], call.ret[2]), Add(call.ret[3], call.ret[4])) = Z(0)

\* the laws of an element whose rate is per time step
TimeStepMethods ==
    {"calculate_S_Starch", "calculate_D_Starch", "calculate_S_Sucrose", "calculate_S_proteins",
     "calculate_S_amino_acids", "calculate_Loading_Sucrose", "calculate_Regul_S_Fructan"}

\* C8: an initialised element returns, for the same arguments, what any element of the
\* same class and structural mass returns, whichever time step that one was
\* initialised with: two evaluations with identical inputs are identical.
C8_SameInputsSameFlux ==
    (/\ Initialized
     /\ call.fn \in TimeStepMethods)
    => \A delta_t \in DeltaTs :
          Element_call(Element_initialize(organ, delta_t), call.fn, call.args) = call.ret

\* C9: a step that evaluates a flux or a derivative leaves every attribute of the
\* entity as it was; an entity changes only by initialize, or by the growth model
\* between two integration calls.
C9_EvaluationAssignsNothing ==
    [][/\ call' # NoCall => organ' = organ /\ population' = population /\ parameters' = parameters
       /\ organ' # organ =>
             \/ organ.kind = "Grains" /\ organ' = Grains_initialize(organ)
             \/ /\ organ.kind = "Soil"
                /\ \E delta_t \in DeltaTs : organ' = Soil_initialize(organ, delta_t)
             \/ /\ organ.kind = "PhotosyntheticOrganElement"
                /\ \/ \E delta_t \in DeltaTs : organ' = Element_initialize(organ, delta_t)
                   \/ call = NoCall /\ organ' = [organ EXCEPT !.mstruct = organ'.mstruct]]_vars

\* a loading has been computed and self.Loading_Sucrose is still None
C9_Witness ==
    /\ Initialized
    /\ call.fn = "calculate_Loading_Sucrose"
    /\ IsNum(call.ret)
    /\ call.ret # Z(0)
    /\ organ.Loading_Sucrose = None

\* C10: up to FILLING_INIT the grains grow by prec_structure * RGR_Structure * delta_t
\* and make no starch; after FILLING_INIT they no longer grow, and make starch, if
\* the phloem holds sucrose, up to FILLING_END and none later; at no age are both
\* the structure and the starch synthesis different from 0.
C10_GrainPhases ==
    organ.kind = "Grains" =>
        LET G == parameters.GRAINS_PARAMETERS
            age == organ.age_from_flowering
        IN  /\ call.fn = "calculate_S_grain_structure" =>
                 call.ret = IF Le(age, G.FILLING_INIT)
                            THEN Mul(Mul(call.args[1], call.args[2]), call.args[3])
                            ELSE Z(0)
            /\ call.fn = "calculate_S_grain_starch" =>
                 /\ IsNum(call.ret)
                 /\ Lt(Z(0), call.ret) <=>
                       /\ Lt(G.FILLING_INIT, age)
                       /\ Le(age, G.FILLING_END)
                       /\ Lt(Z(0), call.args[1])
                 /\ ~Lt(Z(0), call.ret) => call.ret = Z(0)
            /\ \A structure \in GrainsArguments("calculate_S_grain_structure") :
               \A starch \in GrainsArguments("calculate_S_grain_starch") :
                  \/ Grains_call(organ, "calculate_S_grain_structure", structure) = Z(0)
                  \/ Grains_call(organ, "calculate_S_grain_starch", starch) = Z(0)

\* grains grow at the age FILLING_INIT itself
C10_Witness ==
    /\ organ.kind = "Grains"
    /\ organ.age_from_flowering = parameters.GRAINS_PARAMETERS.FILLING_INIT
    /\ call.fn = "calculate_S_grain_structure"
    /\ Lt(Z(0), call.ret)

\* the call returned a tuple
ReturnsTuple ==
    \/ call.fn = "carbon_derivatives"
    \/ organ.kind = "Roots" /\ call.fn \in {"calculate_Uptake_Nitrates", "calculate_exudation"}
    \/ organ.kind = "PhotosyntheticOrganElement" /\ call.fn = "calculate_D_Proteins"

\* the call returned numbers to its caller: no exception was raised
ReturnsValue ==
    IF ReturnsTuple THEN \A i \in DOMAIN call.ret : IsNum(call.ret[i]) ELSE IsNum(call.ret)

\* the flux laws whose body divides by self.mstruct
MstructDividingMethods ==
    CASE organ.kind = "PhotosyntheticOrganElement" ->
            {"calculate_S_Starch", "calculate_D_Starch", "calculate_S_Sucrose",
             "calculate_Loading_Sucrose", "calculate_export_sucrose", "calculate_Regul_S_Fructan",
             "calculate_S_Fructan", "calculate_D_Fructan", "calculate_S_amino_acids",
             "calculate_S_proteins", "calculate_Loading_Amino_Acids",
             "calculate_Export_Amino_Acids", "calculate_D_Proteins"}
      [] organ.kind = "HiddenZone" ->
            {"calculate_Unloading_Sucrose", "calculate_Unloading_Amino_Acids",
             "calculate_S_proteins", "calculate_D_Proteins", "calculate_Regul_S_Fructan",
             "calculate_S_Fructan", "calculate_D_Fructan"}
      [] organ.kind = "Roots" ->
            {"calculate_Uptake_Nitrates", "calculate_S_amino_acids", "calculate_Export_Nitrates",
             "calculate_Export_Amino_Acids"}
      [] OTHER -> {}

\* C14: for an element, a hidden zone or roots whose mstruct is 0, no flux law that
\* divides by mstruct returns a value to its caller: each ends in an error.
C14_ZeroMstructFailsFast ==
    (/\ organ.kind \in {"PhotosyntheticOrganElement", "HiddenZone", "Roots"}
     /\ organ.mstruct = Z(0)
     /\ call.fn \in MstructDividingMethods)
    => ~ReturnsValue

\* the concentrations (element, other compartment) of an exchange of an element:
\* the phloem holds its amount in mstruct_axis * AXIS_PARAMETERS.ALPHA, the hidden zone in its mstruct
ExchangeConcentrations ==
    <<Div(call.args[1], Element_mstruct_ALPHA(organ)),
      IF call.fn \in {"calculate_Loading_Sucrose", "calculate_Loading_Amino_Acids"}
      THEN Div(call.args[2], Mul(call.args[3], parameters.AXIS_PARAMETERS.ALPHA))
      ELSE Div(call.args[2], call.args[3])>>

\* the conductance of each exchange of an element
ExchangeConductance ==
    CASE call.fn = "calculate_Loading_Sucrose" -> organ.derived.conductance_Loading_Sucrose
      [] call.fn = "calculate_Loading_Amino_Acids" -> organ.derived.conductance_Loading_Amino_Acids
      [] call.fn = "calculate_export_sucrose" -> organ.derived.conductance_Export_Sucrose
      [] call.fn = "calculate_Export_Amino_Acids" -> organ.derived.conductance_Export_Amino_Acids

\* C15 as stated: the two loadings and the two exports of an initialised element all
\* return max(C_element, C_other) * (C_element - C_other) * conductance.
C15_DrivingConcentrationInAllFour ==
    (/\ Initialized
     /\ PositiveMstruct
     /\ call.fn \in {"calculate_Loading_Sucrose", "calculate_Loading_Amino_Acids",
                     "calculate_export_sucrose", "calculate_Export_Amino_Acids"})
    => LET C == ExchangeConcentrations
       IN  call.ret = Mul(Mul(Max(C[1], C[2]), Sub(C[1], C[2])), ExchangeConductance)

\* C15: the two loadings of an initialised element return
\* max(C_element, C_phloem) * (C_element - C_phloem) * conductance; the two exports to
\* the hidden zone return (C_element - C_hiddenzone) * conductance, without the driving
\* concentration, so an export is proportional to the gradient alone.
C15_LoadingDrivenExportLinear ==
    (/\ Initialized
     /\ PositiveMstruct)
    => LET C == ExchangeConcentrations
       IN  /\ call.fn \in {"calculate_Loading_Sucrose", "calculate_Loading_Amino_Acids"} =>
                call.ret = Mul(Mul(Max(C[1], C[2]), Sub(C[1], C[2])), ExchangeConductance)
           /\ call.fn \in {"calculate_export_sucrose", "calculate_Export_Amino_Acids"} =>
                call.ret = Mul(Sub(C[1], C[2]), ExchangeConductance)

\* an export that the driving concentration would have changed
C15_Witness ==
    /\ Initialized
    /\ call.fn = "calculate_Export_Amino_Acids"
    /\ IsNum(call.ret)
    /\ call.ret # Z(0)
    /\ LET C == ExchangeConcentrations
       IN  call.ret # Mul(Mul(Max(C[1], C[2]), Sub(C[1], C[2])), ExchangeConductance)

\* C16: the sucrose and amino acids unloading of a hidden zone of positive mstruct is
\* (amount_phloem / mstruct_axis - amount / mstruct) * conductance * delta_t: positive
\* exactly when the phloem concentration exceeds that of the hidden zone, negative
\* exactly when it is lower, zero when they are equal.
C16_UnloadingSignFollowsGradient ==
    (/\ organ.kind = "HiddenZone"
     /\ PositiveMstruct
     /\ call.fn \in {"calculate_Unloading_Sucrose", "calculate_Unloading_Amino_Acids"})
    => LET conc_phloem == Div(call.args[2], call.args[3])
           conc_hiddenzone == Div(call.args[1], organ.mstruct)
           conductance == Mul(Mul(parameters.HIDDEN_ZONE_PARAMETERS.SIGMA,
                                  parameters.PHOTOSYNTHETIC_ORGAN_PARAMETERS.BETA),
                              Pow23(organ.mstruct))
       IN  /\ call.ret = Mul(Mul(Sub(conc_phloem, conc_hiddenzone), conductance), call.args[4])
           /\ Lt(Z(0), call.ret) <=> Lt(conc_hiddenzone, conc_phloem)
           /\ Lt(call.ret, Z(0)) <=> Lt(conc_phloem, conc_hiddenzone)
           /\ call.ret = Z(0) <=> conc_phloem = conc_hiddenzone

\* the unloading reverses: the hidden zone is more concentrated than the phloem
C16_Witness ==
    /\ organ.kind = "HiddenZone"
    /\ call.fn = "calculate_Unloading_Sucrose"
    /\ Lt(Div(call.args[2], call.args[3]), Div(call.args[1], organ.mstruct))
    /\ Lt(call.ret, Z(0))

\* C17 as stated: calculate_Uptake_Nitrates of the roots and calculate_D_Proteins of an
\* element return the integrated amount first and the auxiliary rate second:
\* (net uptake, HATS_LATS) and (degradation, k_proteins).
C17_AmountThenRate ==
    (/\ ReturnsTuple
     /\ organ.kind = "PhotosyntheticOrganElement" => Initialized
     /\ PositiveMstruct
     /\ ReturnsValue)
    => /\ call.fn = "calculate_Uptake_Nitrates" =>
             LET R == parameters.ROOTS_PARAMETERS
                 conc == Div(call.args[3], organ.mstruct)
             IN  call.ret[1] = Mul(Mul(call.ret[2], R.NET_INFLUX_UPTAKE_RATIO),
                                   Div(conc, Add(conc, R.K_C)))
       /\ call.fn = "calculate_D_Proteins" =>
             call.ret[1] = Mul(Max(Z(0), Mul(call.ret[2],
                                  Div(call.args[1], Element_mstruct_ALPHA(organ)))), call.args[3])

\* C17: three flux laws return a pair.  calculate_Uptake_Nitrates returns (net nitrate
\* uptake, HATS_LATS influx), the net uptake being the influx times
\* NET_INFLUX_UPTAKE_RATIO times the carbon regulation; calculate_D_Proteins of an
\* element returns (k_proteins, degradation), the rate first and the amount
\* max(0, k_proteins * proteins / (mstruct * ALPHA)) * delta_t second;
\* calculate_exudation returns the two amounts (C_exudation, N_exudation).
C17_TupleOrders ==
    (/\ ReturnsTuple
     /\ call.fn # "carbon_derivatives"
     /\ organ.kind = "PhotosyntheticOrganElement" => Initialized
     /\ PositiveMstruct
     /\ ReturnsValue)
    => /\ Len(call.ret) = 2
       /\ call.fn = "calculate_Uptake_Nitrates" =>
             LET R == parameters.ROOTS_PARAMETERS
                 conc == Div(call.args[3], organ.mstruct)
             IN  call.ret[1] = Mul(Mul(call.ret[2], R.NET_INFLUX_UPTAKE_RATIO),
                                   Div(conc, Add(conc, R.K_C)))
       /\ call.fn = "calculate_D_Proteins" =>
             /\ Lt(Z(0), call.ret[1])
             /\ call.ret[1] =
                   Div(organ.derived.CST1_D_Proteins,
                       Add(PowNat(Max(Z(0), Div(call.args[2], organ.mstruct)),
                                  organ.derived.N_D_Proteins.n),
                           organ.derived.KN_D_Proteins))
             /\ call.ret[2] = Mul(Max(Z(0), Mul(call.ret[1],
                                      Div(call.args[1], Element_mstruct_ALPHA(organ)))), call.args[3])
       /\ call.fn = "calculate_exudation" =>
             /\ call.ret[1] = Min(call.args[2], Mul(call.args[1], parameters.ROOTS_PARAMETERS.C_EXUDATION))
             /\ call.ret[2] \in {Z(0), Mul(Div(call.args[4], call.args[2]), call.ret[1])}

\* a degradation whose second component is the amount and whose first is not
C17_Witness ==
    /\ Initialized
    /\ call.fn = "calculate_D_Proteins"
    /\ ReturnsValue
    /\ Lt(Z(0), call.ret[2])
    /\ call.ret[1] # Mul(Max(Z(0), Mul(call.ret[2],
                             Div(call.args[1], Element_mstruct_ALPHA(organ)))), call.args[3])

C19_RegulSFructanCeiling ==
    (/\ call.fn = "calculate_Regul_S_Fructan"
     /\ Initialized \/ organ.kind = "HiddenZone"
     /\ PositiveMstruct)
    => LET VMAX_SFRUCTAN_POT == parameters.PHOTOSYNTHETIC_ORGAN_PARAMETERS.VMAX_SFRUCTAN_POT
           Loading_Sucrose == call.args[1]
           delta_t == call.args[2]
           Regul(loading) == IF organ.kind = "HiddenZone"
                             THEN HiddenZone_calculate_Regul_S_Fructan(organ, loading, delta_t)
                             ELSE Element_calculate_Regul_S_Fructan(organ, loading, delta_t)
           element == PhotosyntheticOrganElement("LaminaElement", organ.mstruct,
                         INIT_COMPARTMENTS, INIT_COMPARTMENTS, INIT_COMPARTMENTS)
       IN  /\ Le(Loading_Sucrose, Z(0)) => call.ret = VMAX_SFRUCTAN_POT
           /\ Lt(Z(0), Loading_Sucrose) => Lt(Z(0), call.ret) /\ Le(call.ret, VMAX_SFRUCTAN_POT)
           /\ \A larger \in Loadings : Le(Loading_Sucrose, larger) => Le(Regul(larger), call.ret)
           /\ organ.kind = "HiddenZone" =>
                 call.ret = Element_calculate_Regul_S_Fructan(
                               Element_initialize(element, delta_t), Loading_Sucrose, delta_t)
           /\ (Initialized /\ organ = Element_initialize(organ, delta_t)) =>
                 call.ret = HiddenZone_calculate_Regul_S_Fructan(
                               HiddenZone(organ.mstruct), Loading_Sucrose, delta_t)

\* a regulated ceiling of an element initialised with a step of 2 s
C19_Witness ==
    /\ Initialized
    /\ call.fn = "calculate_Regul_S_Fructan"
    /\ call.args[2] = Z(2)
    /\ organ = Element_initialize(organ, Z(2))
    /\ Lt(Z(0), call.args[1])
    /\ Lt(call.ret, parameters.PHOTOSYNTHETIC_ORGAN_PARAMETERS.VMAX_SFRUCTAN_POT)

\* C20: for every zero or negative pool, with mstruct > 0, the amino acids unloading,
\* the amino acids synthesis and the exudation of the roots and the protein synthesis
\* of the grains return a value: none raises.
C20_DomainErrorsGuarded ==
    (\/ /\ organ.kind = "Roots"
        /\ PositiveMstruct
        /\ call.fn \in {"calculate_Unloading_Amino_Acids", "calculate_S_amino_acids",
                        "calculate_exudation"}
     \/ /\ organ.kind = "Grains"
        /\ call.fn = "calculate_S_proteins")
    => ReturnsValue

\* the sum of a sequence of numbers
RECURSIVE SumSeq(_)
SumSeq(seq) == IF seq = <<>> THEN Z(0) ELSE Add(Head(seq), SumSeq(Tail(seq)))

\* the contributors of one kind, in the order supplied
OfKind(contributors, kind) == SelectSeq(contributors, LAMBDA c : c.kind = kind)

\* C21: the sucrose derivative of the phloem is, over the contributors supplied, the sum
\* of Loading_Sucrose of the elements, minus the sum over the grains of
\* S_grain_structure + S_grain_starch * structural_dry_mass, minus the sum over the
\* roots of Unloading_Sucrose * mstruct * ALPHA, minus the sum over the hidden zones
\* of Unloading_Sucrose; another kind of contributor adds nothing and a contributor
\* supplied twice counts twice.
C21_PhloemSucroseBalance ==
    (organ.kind = "Phloem" /\ call.fn = "calculate_sucrose_derivative")
    => LET contributors == call.args[1]
           elements == OfKind(contributors, "PhotosyntheticOrganElement")
           grains == OfKind(contributors, "Grains")
           roots == OfKind(contributors, "Roots")
           hiddenzones == OfKind(contributors, "HiddenZone")
           loaded == SumSeq([i \in 1..Len(elements) |-> elements[i].Loading_Sucrose])
           to_grains == SumSeq([i \in 1..Len(grains) |->
                           Add(grains[i].S_grain_structure,
                               Mul(grains[i].S_grain_starch, grains[i].structural_dry_mass))])
           to_roots == SumSeq([i \in 1..Len(roots) |->
                          Mul(Mul(roots[i].Unloading_Sucrose, roots[i].mstruct),
                              parameters.ROOTS_PARAMETERS.ALPHA)])
           to_hiddenzones == SumSeq([i \in 1..Len(hiddenzones) |-> hiddenzones[i].Unloading_Sucrose])
       IN  /\ call.ret = Sub(Sub(Sub(loaded, to_grains), to_roots), to_hiddenzones)
           /\ call.ret = Phloem_calculate_sucrose_derivative(organ,
                            SelectSeq(contributors, LAMBDA c : c.kind # "Phloem"))
           /\ Phloem_calculate_sucrose_derivative(organ, contributors \o contributors)
                 = Mul(Z(2), call.ret)

\* the same roots supplied twice, unloaded twice
C21_Witness ==
    /\ organ.kind = "Phloem"
    /\ call.fn = "calculate_sucrose_derivative"
    /\ Len(call.args[1]) = 2
    /\ call.args[1][1] = call.args[1][2]
    /\ call.args[1][1].kind = "Roots"
    /\ call.ret = Mul(Z(-2), Mul(Mul(call.args[1][1].Unloading_Sucrose, call.args[1][1].mstruct),
                                 parameters.ROOTS_PARAMETERS.ALPHA))

\* what the phloem removes for one contributor: sucrose, amino acids
PhloemRemoves(c) ==
    <<Neg(Phloem_calculate_sucrose_derivative(organ, <<c>>)),
      Neg(Phloem_calculate_amino_acids_derivative(organ, <<c>>))>>

\* what the contributor's own derivatives gain from its unloading, every other
\* flux being zero: sucrose (structure and starch for the grains), amino acids
\* (proteins for the grains)
SinkGains(c) ==
    CASE c.kind = "Roots" ->
            <<Roots_calculate_sucrose_derivative(c, c.Unloading_Sucrose, Z(0), Z(0), Z(0)),
              Roots_calculate_amino_acids_derivative(c, c.Unloading_Amino_Acids, Z(0), Z(0), Z(0))>>
      [] c.kind = "HiddenZone" ->
            <<HiddenZone_calculate_sucrose_derivative(c, c.Unloading_Sucrose, Z(0), Z(0), Z(0)),
              HiddenZone_calculate_amino_acids_derivative(c, c.Unloading_Amino_Acids, Z(0), Z(0), Z(0))>>
      [] c.kind = "Grains" ->
            <<Add(Grains_calculate_structure_derivative(c, c.S_grain_structure, Z(0)),
                  Grains_calculate_starch_derivative(c, c.S_grain_starch, c.structural_dry_mass, Z(0))),
              Grains_calculate_proteins_derivative(c, c.S_Proteins)>>

\* C22: what the phloem derivatives remove for a roots, a hidden zone or a grains
\* contributor is what that contributor's own derivatives gain from the unloading,
\* for every mstruct > 0 and every positive ALPHA of the roots.
C22_PhloemSinkConservation ==
    (organ.kind = "Phloem" /\ call.fn \in {"calculate_sucrose_derivative", "calculate_amino_acids_derivative"})
    => \A i \in 1..Len(call.args[1]) :
          LET c == call.args[1][i]
          IN  c.kind \in {"Roots", "HiddenZone", "Grains"} => PhloemRemoves(c) = SinkGains(c)

\* C23: nitrogen is conserved in each organ: with import, export, loading, unloading,
\* uptake and exudation zero, the nitrogen derivatives sum to zero for every flux value
\* (element: nitrates, amino acids, proteins; roots: nitrates, amino acids; hidden
\* zone: amino acids, proteins).
C23_NitrogenConservedLocally ==
    call.fn = "calculate_amino_acids_derivative" =>
        CASE organ.kind = "PhotosyntheticOrganElement" ->
                (call.args[1] = Z(0) /\ call.args[5] = Z(0))
                => Add(Add(Element_calculate_nitrates_derivative(organ, Z(0), call.args[2]),
                           call.ret),
                       Element_calculate_proteins_derivative(organ, call.args[3], call.args[4])) = Z(0)
          [] organ.kind = "Roots" ->
                (call.args[1] = Z(0) /\ call.args[3] = Z(0) /\ call.args[4] = Z(0))
                => Add(Roots_calculate_nitrates_derivative(organ, Z(0), Z(0), call.args[2]),
                       call.ret) = Z(0)
          [] organ.kind = "HiddenZone" ->
                (call.args[1] = Z(0) /\ call.args[4] = Z(0))
                => Add(call.ret,
                       HiddenZone_calculate_proteins_derivative(organ, call.args[2], call.args[3])) = Z(0)
          [] OTHER -> TRUE

\* an element that only synthesises amino acids: its amino acids gain what its nitrates lose
C23_Witness ==
    /\ organ.kind = "PhotosyntheticOrganElement"
    /\ ElementClassParameters(organ).ALPHA = Z(2)
    /\ call.fn = "calculate_amino_acids_derivative"
    /\ call.args = <<Z(0), Z(1), Z(0), Z(0), Z(0)>>
    /\ call.ret = Mul(organ.mstruct, Z(2))
    /\ call.ret # Z(0)

\* the carbon a synthesis flux S_Amino_Acids takes from the carbon pool of the organ:
\* triosesP in an element, sucrose in the roots
CarbonTaken(self, S_Amino_Acids) ==
    IF self.kind = "Roots"
    THEN Sub(Roots_calculate_sucrose_derivative(self, Z(0), Z(0), Z(0), Z(0)),
             Roots_calculate_sucrose_derivative(self, Z(0), S_Amino_Acids, Z(0), Z(0)))
    ELSE Sub(Element_calculate_triosesP_derivative(self, Z(0), Z(0), Z(0), Z(0)),
             Element_calculate_triosesP_derivative(self, Z(0), Z(0), Z(0), S_Amino_Acids))

\* the nitrogen the same flux adds to the amino acids of the organ
NitrogenAdded(self, S_Amino_Acids) ==
    IF self.kind = "Roots"
    THEN Roots_calculate_amino_acids_derivative(self, Z(0), S_Amino_Acids, Z(0), Z(0))
    ELSE Element_calculate_amino_acids_derivative(self, Z(0), S_Amino_Acids, Z(0), Z(0), Z(0))

\* C24: in an element and in the roots, the carbon a synthesis flux S_Amino_Acids takes
\* from the carbon pool is AMINO_ACIDS_C_RATIO / AMINO_ACIDS_N_RATIO times the nitrogen
\* the same flux takes from the nitrates and adds to the amino acids.
C24_AminoAcidsCoupling ==
    (organ.kind \in {"PhotosyntheticOrganElement", "Roots"} /\ call.fn = "calculate_nitrates_derivative")
    => LET S_Amino_Acids == call.args[Len(call.args)]
           exchanged == IF organ.kind = "Roots" THEN Sub(call.args[1], call.args[2]) ELSE call.args[1]
           nitrogen == Sub(exchanged, call.ret)
       IN  /\ nitrogen = NitrogenAdded(organ, S_Amino_Acids)
           /\ CarbonTaken(organ, S_Amino_Acids)
                 = Mul(Div(AMINO_ACIDS_C_RATIO, AMINO_ACIDS_N_RATIO), nitrogen)

\* roots that reduce nitrates into amino acids
C24_Witness ==
    /\ organ.kind = "Roots"
    /\ organ.mstruct = Z(8)
    /\ call.fn = "calculate_nitrates_derivative"
    /\ call.args = <<Z(1), Z(0), Z(1)>>
    /\ call.ret = Z(-7)
    /\ CarbonTaken(organ, Z(1)) = Mul(Z(8), Q(367, 117))

\* C25: the carbon regulator of the nitrate uptake is computed on a sucrose
\* concentration clamped at zero: for every soil concentration >= 0 and every amount
\* of sucrose, negative ones included, the net uptake is a value, it is zero when the
\* roots hold no sucrose, it is never negative and never above
\* HATS_LATS * NET_INFLUX_UPTAKE_RATIO.
C25_UptakeRegulatorClamped ==
    (/\ organ.kind = "Roots"
     /\ PositiveMstruct
     /\ call.fn = "calculate_Uptake_Nitrates"
     /\ Le(Z(0), call.args[1]))
    => LET net_nitrate_uptake == call.ret[1]
           HATS_LATS == call.ret[2]
           sucrose_roots == call.args[3]
       IN  /\ IsNum(net_nitrate_uptake)
           /\ Le(sucrose_roots, Z(0)) => net_nitrate_uptake = Z(0)
           /\ Le(Z(0), net_nitrate_uptake)
           /\ Le(net_nitrate_uptake,
                 Mul(HATS_LATS, parameters.ROOTS_PARAMETERS.NET_INFLUX_UPTAKE_RATIO))

\* C26: calculate_exudation returns C_exudation = min(sucrose_roots,
\* Unloading_Sucrose * C_EXUDATION) and N_exudation = C_exudation times the ratio
\* amino acids:sucrose of the phloem, N_exudation being zero when amino_acids_phloem,
\* amino_acids_roots or sucrose_roots is zero or negative.
C26_ExudationPhloemRatio ==
    (organ.kind = "Roots" /\ call.fn = "calculate_exudation")
    => LET Unloading_Sucrose == call.args[1]
           sucrose_roots == call.args[2]
           sucrose_phloem == call.args[3]
           amino_acids_roots == call.args[4]
           amino_acids_phloem == call.args[5]
           C_exudation == call.ret[1]
           N_exudation == call.ret[2]
       IN  /\ C_exudation = Min(sucrose_roots,
                                Mul(Unloading_Sucrose, parameters.ROOTS_PARAMETERS.C_EXUDATION))
           /\ N_exudation =
                 IF \/ Le(amino_acids_phloem, Z(0))
                    \/ Le(amino_acids_roots, Z(0))
                    \/ Le(sucrose_roots, Z(0))
                 THEN Z(0)
                 ELSE Mul(C_exudation, Div(amino_acids_phloem, sucrose_phloem))

\* C27: whatever the sequence of initialize, growth of mstruct and evaluations, the two
\* loadings and the two exports of an element use the conductance
\* SIGMA * BETA * mstruct ** (2/3) * delta_t of the current mstruct of the element and
\* of the delta_t of the call.
C27_ConductanceIsCurrent ==
    (/\ Initialized
     /\ PositiveMstruct
     /\ call.fn \in {"calculate_Loading_Sucrose", "calculate_Loading_Amino_Acids",
                     "calculate_export_sucrose", "calculate_Export_Amino_Acids"}
     /\ IsNum(call.ret))
    => LET P == parameters.PHOTOSYNTHETIC_ORGAN_PARAMETERS
           SIGMA == CASE call.fn = "calculate_Loading_Sucrose" -> P.SIGMA_SUCROSE
                      [] call.fn = "calculate_Loading_Amino_Acids" -> P.SIGMA_AMINO_ACIDS
                      [] OTHER -> parameters.HIDDEN_ZONE_PARAMETERS.SIGMA
           delta_t == call.args[4]
           conductance == Mul(Mul(Mul(SIGMA, P.BETA), Pow23(organ.mstruct)), delta_t)
           C == ExchangeConcentrations
           driving == IF call.fn \in {"calculate_Loading_Sucrose", "calculate_Loading_Amino_Acids"}
                      THEN Max(C[1], C[2])
                      ELSE Z(1)
       IN  call.ret = Mul(Mul(driving, Sub(C[1], C[2])), conductance)

\* the transpirations of the other elements of the axis, given that all the elements
\* of the axis sum to Total_Transpiration
CompanionTranspirations(element_transpiration, Total_Transpiration) ==
    {others \in UNION {[1..n -> Transpirations] : n \in 0..2} :
        Add(element_transpiration, SumSeq(others)) = Total_Transpiration}

\* x lies between a and b, whichever is the larger
Between(x, a, b) == Le(Min(a, b), x) /\ Le(x, Max(a, b))

\* C29 as stated: when Total_Transpiration > 0 is the sum of the transpirations of the
\* elements of an axis, the imports of these elements sum to the export of the roots
\* and the share of an element whose transpiration is not negative lies between 0 and
\* the export.
C29_SharesWithinExport ==
    (/\ organ.kind = "PhotosyntheticOrganElement"
     /\ call.fn \in ImportMethods
     /\ Lt(Z(0), call.args[3]))
    => \A others \in CompanionTranspirations(call.args[2], call.args[3]) :
          /\ Add(call.ret,
                 SumSeq([i \in 1..Len(others) |->
                            Element_call(organ, call.fn, <<call.args[1], others[i], call.args[3]>>)]))
                = call.args[1]
          /\ Le(Z(0), call.args[2]) => Between(call.ret, Z(0), call.args[1])

\* C29: when Total_Transpiration > 0 is the sum of the transpirations of the elements
\* of an axis, the imports of these elements sum to the export of the roots; the share
\* of an element lies between 0 and the export when no element of the axis has a
\* negative transpiration.
C29_ExportFullyDistributed ==
    (/\ organ.kind = "PhotosyntheticOrganElement"
     /\ call.fn \in ImportMethods
     /\ Lt(Z(0), call.args[3]))
    => \A others \in CompanionTranspirations(call.args[2], call.args[3]) :
          /\ Add(call.ret,
                 SumSeq([i \in 1..Len(others) |->
                            Element_call(organ, call.fn, <<call.args[1], others[i], call.args[3]>>)]))
                = call.args[1]
          /\ (Le(Z(0), call.args[2]) /\ \A i \in 1..Len(others) : Le(Z(0), others[i]))
             => Between(call.ret, Z(0), call.args[1])

\* an element that makes half of the transpiration of its axis imports half of the export
C29_Witness ==
    /\ organ.kind = "PhotosyntheticOrganElement"
    /\ call.fn = "calculate_Amino_Acids_import"
    /\ call.args = <<Z(1), Z(1), Z(2)>>
    /\ call.ret = Q(1, 2)
    /\ <<Z(1)>> \in CompanionTranspirations(call.args[2], call.args[3])

\* the contributors of seq in every order
Reorderings(seq) ==
    {[i \in 1..Len(seq) |-> seq[p[i]]] : p \in Permutations(1..Len(seq))}

\* C30: the two derivatives of the phloem and the nitrates derivative of the soil
\* (mineralisation minus the sum of root_uptake * culm_density[plant_id]) return the
\* same value for the same contributors in any order; without contributors the phloem
\* derivatives are 0 and the soil derivative is the mineralisation.
C30_ContributorOrderIrrelevant ==
    /\ (organ.kind = "Phloem" /\ call.fn = "calculate_sucrose_derivative")
       => /\ \A contributors \in Reorderings(call.args[1]) :
                Phloem_calculate_sucrose_derivative(organ, contributors) = call.ret
          /\ call.args[1] = <<>> => call.ret = Z(0)
    /\ (organ.kind = "Phloem" /\ call.fn = "calculate_amino_acids_derivative")
       => /\ \A contributors \in Reorderings(call.args[1]) :
                Phloem_calculate_amino_acids_derivative(organ, contributors) = call.ret
          /\ call.args[1] = <<>> => call.ret = Z(0)
    /\ (organ.kind = "Soil" /\ call.fn = "calculate_nitrates_derivative")
       => /\ \A soil_contributors \in Reorderings(call.args[2]) :
                Soil_calculate_nitrates_derivative(organ, call.args[1], soil_contributors, call.args[3])
                   = call.ret
          /\ call.ret = Sub(call.args[1],
                            SumSeq([i \in 1..Len(call.args[2]) |->
                                       Mul(call.args[2][i][1], call.args[3][call.args[2][i][2]])]))
          /\ call.args[2] = <<>> => call.ret = call.args[1]

\* the roots of two plants of different culm density have taken nitrates from the soil
C30_Witness ==
    /\ organ.kind = "Soil"
    /\ call.fn = "calculate_nitrates_derivative"
    /\ call.args[1] = Z(1)
    /\ call.args[2] = <<<<Z(1), 1>>, <<Z(1), 2>>>>
    /\ call.ret = Z(-2)
    /\ <<<<Z(1), 2>>, <<Z(1), 1>>>> \in Reorderings(call.args[2])

(***************************************************************************)
(* Properties of the aggregation pass.                                     *)
(***************************************************************************)
\* C5: right after an aggregation pass, a second pass changes nothing: every mstruct
\* and every Total_Organic_Nitrogen keeps the value the first pass gave it.
C5_AggregationIdempotent ==
    call.fn = "calculate_integrative_variables" =>
        Population_calculate_integrative_variables(population).self = population

\* a pass has refreshed an axis with grains, after the roots have grown
C5_Witness ==
    /\ call.fn = "calculate_integrative_variables"
    /\ call.ret = None
    /\ \E ij \in AxisIndices :
          LET axis == population.plants[ij[1]].axes[ij[2]]
          IN  /\ axis.grains # None
              /\ axis.roots.mstruct = Z(2)
              /\ Lt(Z(5), axis.mstruct)

\* the sum of the mstruct of the children of self that are present, among slots
RECURSIVE SumPresent(_, _)
SumPresent(self, slots) ==
    IF slots = <<>> THEN Z(0)
    ELSE LET child == self[Head(slots)]
         IN  Add(IF child = None THEN Z(0) ELSE child.mstruct, SumPresent(self, Tail(slots)))

\* the sum of the mstruct of the phytomers
RECURSIVE SumPhytomers(_)
SumPhytomers(phytomers) ==
    IF phytomers = <<>> THEN Z(0)
    ELSE Add(Head(phytomers).mstruct, SumPhytomers(Tail(phytomers)))

\* C6: after a completed aggregation pass, whatever masses the growth model assigned
\* before it, every axis has mstruct = roots.mstruct + grains.structural_dry_mass (if
\* present) + the sum of its phytomers' mstruct, every phytomer the sum of its present
\* organs and hidden zone, every photosynthetic organ the sum of its present elements.
C6_MstructIsSumOfParts ==
    (call.fn = "calculate_integrative_variables" /\ call.ret = None) =>
        /\ \A ij \in AxisIndices :
              LET axis == population.plants[ij[1]].axes[ij[2]]
              IN  axis.mstruct =
                     Add(Add(IF axis.roots = None THEN Z(0) ELSE axis.roots.mstruct,
                             IF axis.grains = None THEN Z(0) ELSE axis.grains.structural_dry_mass),
                         SumPhytomers(axis.phytomers))
        /\ \A ijk \in PhytomerIndices :
              LET phytomer == population.plants[ijk[1]].axes[ijk[2]].phytomers[ijk[3]]
              IN  /\ phytomer.mstruct = SumPresent(phytomer, PhytomerSlots)
                  /\ \A o \in {"chaff", "peduncle", "lamina", "internode", "sheath"} :
                        phytomer[o] # None =>
                           phytomer[o].mstruct = SumPresent(phytomer[o], ElementSlots)

\* a pass over an axis with initialised grains, a grown lamina element and a grown hidden zone
C6_Witness ==
    /\ call.fn = "calculate_integrative_variables"
    /\ call.ret = None
    /\ \E ij \in AxisIndices :
          LET axis == population.plants[ij[1]].axes[ij[2]]
          IN  /\ axis.grains # None
              /\ Len(axis.phytomers) = 2
              /\ axis.phytomers[1].lamina.enclosed_element.mstruct = Z(2)
              /\ axis.phytomers[2].hiddenzone.mstruct = Z(2)
              /\ axis.phytomers[1].mstruct = Z(4)

\* the transpiration of the elements of an organ, of the organs of a phytomer, of the
\* phytomers of an axis: Tr * green_area summed over the elements that are present
RECURSIVE SumTranspiration(_, _)
SumTranspiration(self, slots) ==
    IF slots = <<>> THEN Z(0)
    ELSE LET child == self[Head(slots)]
             rest == SumTranspiration(self, Tail(slots))
         IN  IF child = None THEN rest
             ELSE IF child.kind = "PhotosyntheticOrgan"
             THEN Add(SumTranspiration(child, ElementSlots), rest)
             ELSE IF child.kind = "PhotosyntheticOrganElement"
             THEN Add(Element_calculate_Total_Transpiration(child, child.Tr, child.green_area), rest)
             ELSE rest

RECURSIVE AxisTranspiration(_)
AxisTranspiration(phytomers) ==
    IF phytomers = <<>> THEN Z(0)
    ELSE Add(SumTranspiration(Head(phytomers), PhytomerSlots), AxisTranspiration(Tail(phytomers)))

\* C11: after a completed aggregation pass, the Total_Transpiration of every axis is the
\* sum, over its photosynthetic elements, of Tr * green_area.
C11_TotalTranspirationAggregated ==
    (call.fn = "calculate_integrative_variables" /\ call.ret = None) =>
        \A ij \in AxisIndices :
           LET axis == population.plants[ij[1]].axes[ij[2]]
           IN  axis.Total_Transpiration = AxisTranspiration(axis.phytomers)

\* C12: after a completed aggregation pass, whatever structure the grains were given
\* before it, grains.structural_dry_mass is calculate_structural_dry_mass(structure).
C12_StructuralDryMassFresh ==
    (call.fn = "calculate_integrative_variables" /\ call.ret = None) =>
        \A ij \in AxisIndices :
           LET grains == population.plants[ij[1]].axes[ij[2]].grains
           IN  grains # None =>
                  grains.structural_dry_mass =
                     Grains_calculate_structural_dry_mass(grains, grains.structure)

\* C13: no aggregation pass completes on a tree with an axis that has no roots, no
\* phloem or no phytomer, or a plant without axis, or a population without plant.
C13_NoPassOnMalformedTree ==
    (call.fn = "calculate_integrative_variables" /\ call.ret = None) =>
        /\ Len(population.plants) >= 1
        /\ \A i \in 1..Len(population.plants) : Len(population.plants[i].axes) >= 1
        /\ \A ij \in AxisIndices :
              LET axis == population.plants[ij[1]].axes[ij[2]]
              IN  /\ axis.roots # None
                  /\ axis.phloem # None
                  /\ Len(axis.phytomers) >= 1

\* self without the field the aggregation pass derives on it
WithoutTotalOrganicNitrogen(self) ==
    IF self = None THEN None ELSE [self EXCEPT !.Total_Organic_Nitrogen = None]

\* an organ of a phytomer without its derived fields: the mstruct of a photosynthetic
\* organ and the Total_Organic_Nitrogen of its elements; a hidden zone has none
WithoutDerivedOrgan(organ_) ==
    IF organ_ = None THEN None
    ELSE IF organ_.kind = "PhotosyntheticOrgan"
    THEN [organ_ EXCEPT !.mstruct = None,
                        !.exposed_element = WithoutTotalOrganicNitrogen(organ_.exposed_element),
                        !.enclosed_element = WithoutTotalOrganicNitrogen(organ_.enclosed_element)]
    ELSE organ_

WithoutDerivedPhytomer(phytomer) ==
    [a \in DOMAIN phytomer |->
        IF a = "mstruct" THEN None
        ELSE IF a = "kind" THEN phytomer[a]
        ELSE WithoutDerivedOrgan(phytomer[a])]

\* an axis without its derived fields; its phloem and its grains have none
WithoutDerivedAxis(axis) ==
    [axis EXCEPT !.mstruct = None,
                 !.roots = WithoutTotalOrganicNitrogen(axis.roots),
                 !.phytomers = [k \in DOMAIN axis.phytomers |-> WithoutDerivedPhytomer(axis.phytomers[k])]]

\* the compartments and the input parameters of the tree: everything but the derived fields
WithoutDerived(self) ==
    [self EXCEPT !.plants =
        [i \in DOMAIN self.plants |->
            [self.plants[i] EXCEPT !.axes =
                [j \in DOMAIN self.plants[i].axes |-> WithoutDerivedAxis(self.plants[i].axes[j])]]]]

\* C28: an aggregation pass writes derived fields only: it leaves every compartment and
\* every input parameter of every entity as it was, and changes nothing but the mstruct
\* of photosynthetic organs, phytomers and axes and the Total_Organic_Nitrogen of roots
\* and elements.
C28_PassWritesDerivedOnly ==
    [][call'.fn = "calculate_integrative_variables"
       => WithoutDerived(population') = WithoutDerived(population)]_vars

\* a pass has written the derived fields of an axis whose roots and element had grown
C28_Witness ==
    /\ call.fn = "calculate_integrative_variables"
    /\ call.ret = None
    /\ \E ij \in AxisIndices :
          LET axis == population.plants[ij[1]].axes[ij[2]]
          IN  /\ axis.roots # None
              /\ axis.roots.mstruct = Z(2)
              /\ IsNum(axis.roots.Total_Organic_Nitrogen)
              /\ axis.phytomers[1].lamina # None
              /\ axis.phytomers[1].lamina.exposed_element.mstruct = Z(2)
              /\ IsNum(axis.phytomers[1].lamina.exposed_element.Total_Organic_Nitrogen)
              /\ axis.phytomers[1].lamina.exposed_element.amino_acids = INIT_COMPARTMENTS
              /\ axis.mstruct = Z(4)

====
